---- MODULE Spec2Model ----
(***************************************************************************)
(* A model of cliconf: the typed flag registry (src/src/lib.rs) and its    *)
(* three-phase load (config files, environment variables, arguments).      *)
(*                                                                         *)
(* Text is modelled as a sequence of one-character strings, so that        *)
(* starts_with, slicing, chars(), split, to_uppercase and str::parse are   *)
(* computed character by character as the code computes them.              *)
(***************************************************************************)
EXTENDS Integers, Sequences, FiniteSets, TLC

VARIABLES
    flags,                \* Flags.flags: name -> Flag
    shorthand_names,      \* Flags.shorthand_names: char -> name
    positionals,          \* Flags.positionals
    config_files,         \* the registered config files, as the file system shows them
    env_vars,             \* load's env_vars argument
    args,                 \* load's args argument
    pc,                   \* position inside load(): idle, files, env, reset, args, done;
                          \* panicked once a call has panicked
    file_idx,             \* phase 1: number of config files already read
    env_left,             \* phase 2: names that self.flags.values_mut() has not yet visited
    arg_idx,              \* phase 3: number of argument tokens already read
    need_value_for_name,  \* parse_args' local
    as_positionals,       \* parse_args' local
    result,               \* what load() returned: "none" while running, Ok or Err
    loads,                \* number of load() calls started on this registry
    fresh,                \* no append_values and no load() has acted on the registry before this load
    roles,                \* what parse_args did with each token read so far
    positionals0,         \* positionals when the current load() was called
    call,                 \* the application's call on the registry since the last load(), if any
    usage                 \* the call of usage::generate on the registry: its arguments,
                          \* its locals and what it wrote to w

vars == <<flags, shorthand_names, positionals, config_files, env_vars, args, pc,
          file_idx, env_left, arg_idx, need_value_for_name, as_positionals,
          result, loads, fresh, roles, positionals0, call, usage>>

----------------------------------------------------------------------------
(* Text helpers *)

Digits == <<"0", "1", "2", "3", "4", "5", "6", "7", "8", "9">>
LowerCase == <<"a","b","c","d","e","f","g","h","i","j","k","l","m",
               "n","o","p","q","r","s","t","u","v","w","x","y","z">>
UpperCase == <<"A","B","C","D","E","F","G","H","I","J","K","L","M",
               "N","O","P","Q","R","S","T","U","V","W","X","Y","Z">>

Range(s) == {s[i] : i \in DOMAIN s}

IndexOf(c, s) == CHOOSE i \in DOMAIN s : s[i] = c

IsDigit(c) == c \in Range(Digits)

DigitValue(c) == IndexOf(c, Digits) - 1

\* str::starts_with
starts_with(s, prefix) ==
    /\ Len(s) >= Len(prefix)
    /\ SubSeq(s, 1, Len(prefix)) = prefix

\* &s[n..]
SliceFrom(s, n) == SubSeq(s, n + 1, Len(s))

\* char::to_uppercase restricted to ASCII: only a-z change
to_uppercase_char(c) ==
    IF c \in Range(LowerCase) THEN UpperCase[IndexOf(c, LowerCase)] ELSE c

\* str::replace("-", "_") on one character
replace_dash(c) == IF c = "-" THEN "_" ELSE c

\* str::split(&delim): the pieces between the occurrences of delim, left to right
RECURSIVE SplitFrom(_, _, _)
SplitFrom(s, delim, cur) ==
    IF s = <<>> THEN <<cur>>
    ELSE IF starts_with(s, delim)
         THEN <<cur>> \o SplitFrom(SliceFrom(s, Len(delim)), delim, <<>>)
         ELSE SplitFrom(Tail(s), delim, Append(cur, Head(s)))

split(s, delim) ==
    IF delim = <<>>
    THEN <<(<<>>)>> \o [i \in 1..Len(s) |-> <<s[i]>>] \o <<(<<>>)>>
    ELSE SplitFrom(s, delim, <<>>)

----------------------------------------------------------------------------
(* str::parse::<T>() *)

ParseErr == [ok |-> FALSE]
ParseOk(v) == [ok |-> TRUE, v |-> v]

RECURSIVE DigitsToNat(_, _)
DigitsToNat(s, acc) ==
    IF s = <<>> THEN acc ELSE DigitsToNat(Tail(s), acc * 10 + DigitValue(Head(s)))

AllDigits(s) == \A i \in DOMAIN s : IsDigit(s[i])

\* bool::from_str accepts exactly "true" and "false"
parse_bool(s) ==
    IF s = <<"t","r","u","e">> THEN ParseOk(TRUE)
    ELSE IF s = <<"f","a","l","s","e">> THEN ParseOk(FALSE)
    ELSE ParseErr

\* i64::from_str / i128::from_str: an optional sign, then one or more decimal
\* digits.  The texts of this model stay far below either width, so the
\* overflow error of the two parsers is never taken.
parse_int_unsigned(s) ==
    IF s = <<>> \/ ~AllDigits(s) THEN ParseErr ELSE ParseOk(DigitsToNat(s, 0))

parse_int(s) ==
    LET signed == s /= <<>> /\ Head(s) \in {"+", "-"}
        body   == IF signed THEN Tail(s) ELSE s
    IN  IF body = <<>> \/ ~AllDigits(body) THEN ParseErr
        ELSE IF signed /\ Head(s) = "-" THEN ParseOk(0 - DigitsToNat(body, 0))
        ELSE ParseOk(DigitsToNat(body, 0))

\* An f64 is kept as m / 10^e with no trailing zero in the fraction.
RECURSIVE NormFloat(_, _)
NormFloat(m, e) ==
    IF e > 0 /\ m % 10 = 0 THEN NormFloat(m \div 10, e - 1) ELSE [m |-> m, e |-> e]

\* f64::from_str on decimal literals: an optional sign, digits with at most
\* one point and at least one digit.  Exponents and the words inf / nan do
\* not occur in the texts of this model.
parse_f64(s) ==
    LET signed == s /= <<>> /\ Head(s) \in {"+", "-"}
        body   == IF signed THEN Tail(s) ELSE s
        points == {i \in DOMAIN body : body[i] = "."}
        dot    == IF points = {} THEN Len(body) + 1 ELSE CHOOSE i \in points : TRUE
        whole  == SubSeq(body, 1, dot - 1)
        frac   == SubSeq(body, dot + 1, Len(body))
        mag    == DigitsToNat(whole \o frac, 0)
    IN  IF \/ Cardinality(points) > 1
           \/ ~AllDigits(whole \o frac)
           \/ whole \o frac = <<>>
        THEN ParseErr
        ELSE ParseOk(NormFloat(IF signed /\ Head(s) = "-" THEN 0 - mag ELSE mag, Len(frac)))

----------------------------------------------------------------------------
(* ToString::to_string, the text usage.rs shows a default value as *)

\* The decimal digits of a natural number, most significant first
RECURSIVE NatToDigits(_)
NatToDigits(n) ==
    IF n < 10 THEN <<Digits[n + 1]>>
    ELSE Append(NatToDigits(n \div 10), Digits[(n % 10) + 1])

bool_to_string(b) == IF b THEN <<"t","r","u","e">> ELSE <<"f","a","l","s","e">>

\* i64 / i128: a minus sign for a negative number, then the digits
int_to_string(n) == IF n < 0 THEN <<"-">> \o NatToDigits(0 - n) ELSE NatToDigits(n)

\* f64 (Display writes no exponent): sign, integer part, and the fraction
\* after a point when there is one
f64_to_string(x) ==
    LET mag    == IF x.m < 0 THEN 0 - x.m ELSE x.m
        d      == NatToDigits(mag)
        padded == IF Len(d) > x.e THEN d
                  ELSE [i \in 1..(x.e + 1 - Len(d)) |-> "0"] \o d
        whole  == SubSeq(padded, 1, Len(padded) - x.e)
        frac   == SubSeq(padded, Len(padded) - x.e + 1, Len(padded))
    IN  (IF x.m < 0 THEN <<"-">> ELSE <<>>)
        \o whole \o (IF x.e = 0 THEN <<>> ELSE <<".">> \o frac)

\* v.to_string() of a scalar variant's payload; a String is its own text
to_string(value) ==
    CASE value.tag = "Bool" -> bool_to_string(value.v)
      [] value.tag = "String" -> value.v
      [] value.tag \in {"Int64", "Int128"} -> int_to_string(value.v)
      [] value.tag = "Float64" -> f64_to_string(value.v)

----------------------------------------------------------------------------
(* enum FlagValue: a tag and a payload *)

ScalarTags == {"Bool", "String", "Int64", "Int128", "Float64"}
ArrayTags == {"StringArray", "Int64Array", "Int128Array", "Float64Array"}

FlagValue(tag, v) == [tag |-> tag, v |-> v]

\* std::mem::discriminant
discriminant(value) == value.tag

IsArray(value) == value.tag \in ArrayTags

\* Option<T>: None is the empty sequence, Some(x) is <<x>>
None == <<>>
Some(x) == <<x>>

Ok == [ok |-> TRUE]
Err(e) == [ok |-> FALSE, err |-> e]
\* The call did not return: it panicked
Panic(msg) == [ok |-> FALSE, panic |-> msg]
\* What the caller of a failed set_value_parsed gets through `?`
Failed(r) == IF r.panic THEN Panic(r.err) ELSE Err(r.err)
Panicked(res) == ~res.ok /\ "panic" \in DOMAIN res

----------------------------------------------------------------------------
(* struct Flag and its methods *)

\* The name pattern of Flag::new, ^([a-z]|[0-9]|-)+$: one character of the
\* group, then the end of the text or a further match
RECURSIVE NameIsValid_any_case(_)
NameIsValid_any_case(name) ==
    /\ name /= <<>>
    /\ \/ Head(name) \in Range(LowerCase) \cup Range(UpperCase)
       \/ Head(name) \in Range(Digits)
       \/ Head(name) = "-"
    /\ (Tail(name) = <<>> \/ NameIsValid_any_case(Tail(name)))

RECURSIVE NameIsValid(_)
NameIsValid(name) ==
    /\ name /= <<>>
    /\ \/ Head(name) \in Range(LowerCase)
       \/ Head(name) \in Range(Digits)
       \/ Head(name) = "-"
    /\ (Tail(name) = <<>> \/ NameIsValid(Tail(name)))

\* The struct Flag::new returns
NewFlag(name, default_value) ==
    [name |-> name,
     default_value |-> default_value,
     value |-> default_value,
     shorthand |-> None,
     env_var_delimiter |-> None,
     is_set |-> FALSE]

\* Flag::new: panics on a name the pattern rejects
Flag_new(name, default_value) ==
    IF ~NameIsValid(name)
    THEN [panic |-> TRUE]
    ELSE [panic |-> FALSE, flag |-> NewFlag(name, default_value)]

\* ('a' <= c && c <= 'z') || ('A' <= c && c <= 'Z') || ('0' <= c && c <= '9')
ShorthandIsValid_any_char(c) == TRUE

ShorthandIsValid(c) ==
    c \in Range(LowerCase) \/ c \in Range(UpperCase) \/ c \in Range(Digits)

\* self.shorthand = Some(c)
WithShorthand(flag, c) == [flag EXCEPT !.shorthand = Some(c)]

\* Flag::shorthand: panics on a character that is no letter and no digit
Flag_shorthand(flag, c) ==
    IF ~ShorthandIsValid(c)
    THEN [panic |-> TRUE]
    ELSE [panic |-> FALSE, flag |-> WithShorthand(flag, c)]

\* Flag::env_var_delimiter
WithEnvVarDelimiter(flag, delim) == [flag EXCEPT !.env_var_delimiter = Some(delim)]

\* Flag::get_env_var_name
get_env_var_name_keeps_dash(flag) ==
    [i \in 1..Len(flag.name) |-> to_uppercase_char(flag.name[i])]

get_env_var_name(flag) ==
    [i \in 1..Len(flag.name) |-> replace_dash(to_uppercase_char(flag.name[i]))]

\* Flag::assert_types_match: TRUE when it does not panic
assert_types_match(flag, value) == discriminant(flag.value) = discriminant(value)

\* Flag::set_value: panics on another variant
set_value_unchecked(flag, value) ==
    [panic |-> FALSE, flag |-> [flag EXCEPT !.value = value]]

set_value(flag, value) ==
    IF ~assert_types_match(flag, value)
    THEN [panic |-> TRUE, flag |-> flag]
    ELSE [panic |-> FALSE, flag |-> [flag EXCEPT !.value = value]]

\* Flag::update_array, on the flag that owns is_set and the array
update_array_always_extend(flag, values) ==
    [flag EXCEPT !.value = FlagValue(flag.value.tag, flag.value.v \o values),
                 !.is_set = TRUE]

update_array(flag, values) ==
    IF flag.is_set
    THEN [flag EXCEPT !.value = FlagValue(flag.value.tag, flag.value.v \o values)]
    ELSE [flag EXCEPT !.value = FlagValue(flag.value.tag, values), !.is_set = TRUE]

\* Flag::append_values: panics on another variant and on a flag that is not an array
append_values(flag, value) ==
    IF ~assert_types_match(flag, value) \/ ~IsArray(flag.value)
    THEN [panic |-> TRUE, flag |-> flag]
    ELSE [panic |-> FALSE, flag |-> update_array(flag, value.v)]

ParseFailure(t, flag, text) ==
    [kind |-> "Failed to parse type", type |-> t, flag |-> flag.name, value |-> text]

\* The element parser and the type name in the message, per variant
ParserOf(tag, text) ==
    CASE tag \in {"Bool"} -> parse_bool(text)
      [] tag \in {"String", "StringArray"} -> ParseOk(text)
      [] tag \in {"Int64", "Int128", "Int64Array", "Int128Array"} -> parse_int(text)
      [] tag \in {"Float64", "Float64Array"} -> parse_f64(text)

TypeNameOf(tag) ==
    CASE tag = "Bool" -> "bool"
      [] tag \in {"String", "StringArray"} -> "String"
      [] tag \in {"Int64", "Int64Array"} -> "i64"
      [] tag \in {"Int128", "Int128Array"} -> "i128"
      [] tag \in {"Float64", "Float64Array"} -> "f64"

\* An array arm of set_value_parsed: append_values on the parsed element; a
\* panic of append_values unwinds through set_value_parsed
append_parsed(flag, x) ==
    LET a == append_values(flag, FlagValue(flag.value.tag, <<x>>))
    IN  IF a.panic
        THEN [ok |-> FALSE, panic |-> TRUE, flag |-> flag, err |-> "append_values in set_value_parsed"]
        ELSE [ok |-> TRUE, flag |-> a.flag]

\* Flag::set_value_parsed: [ok, flag] or [ok, panic, flag, err]; on Err the
\* flag is unchanged
set_value_parsed_keep_first(flag, text) ==
    LET parsed == ParserOf(flag.value.tag, text)
    IN  IF ~parsed.ok
        THEN [ok |-> FALSE, panic |-> FALSE, flag |-> flag,
              err |-> ParseFailure(TypeNameOf(flag.value.tag), flag, text)]
        ELSE IF IsArray(flag.value)
        THEN append_parsed(flag, parsed.v)
        ELSE [ok |-> TRUE,
              flag |-> IF flag.value = flag.default_value
                       THEN [flag EXCEPT !.value = FlagValue(flag.value.tag, parsed.v)]
                       ELSE flag]

set_value_parsed(flag, text) ==
    LET parsed == ParserOf(flag.value.tag, text)
    IN  IF ~parsed.ok
        THEN [ok |-> FALSE, panic |-> FALSE, flag |-> flag,
              err |-> ParseFailure(TypeNameOf(flag.value.tag), flag, text)]
        ELSE IF IsArray(flag.value)
        THEN append_parsed(flag, parsed.v)
        ELSE [ok |-> TRUE,
              flag |-> [flag EXCEPT !.value = FlagValue(flag.value.tag, parsed.v)]]

----------------------------------------------------------------------------
(* struct Flags: the registry *)

NewFlags == [flags |-> << >>, shorthand_names |-> << >>]

\* Flags::add: panics when the name or the shorthand is already registered
add_shorthand_first(reg, flag) ==
    LET sn == IF flag.shorthand = None THEN reg.shorthand_names
              ELSE (flag.shorthand[1] :> flag.name) @@ reg.shorthand_names
    IN  IF flag.shorthand /= None /\ flag.shorthand[1] \in DOMAIN reg.shorthand_names
        THEN [panic |-> TRUE, reg |-> reg]
        ELSE IF flag.name \in DOMAIN reg.flags
        THEN [panic |-> TRUE, reg |-> [flags |-> reg.flags, shorthand_names |-> sn]]
        ELSE [panic |-> FALSE,
              reg |-> [flags |-> (flag.name :> flag) @@ reg.flags, shorthand_names |-> sn]]

add_overwrites(reg, flag) ==
    [panic |-> FALSE,
     reg |-> [flags |-> [n \in DOMAIN reg.flags \cup {flag.name} |->
                            IF n = flag.name THEN flag ELSE reg.flags[n]],
              shorthand_names |->
                  IF flag.shorthand = None THEN reg.shorthand_names
                  ELSE [c \in DOMAIN reg.shorthand_names \cup {flag.shorthand[1]} |->
                           IF c = flag.shorthand[1] THEN flag.name
                           ELSE reg.shorthand_names[c]]]]

add(reg, flag) ==
    IF flag.name \in DOMAIN reg.flags
    THEN [panic |-> TRUE, reg |-> reg]
    ELSE IF flag.shorthand /= None /\ flag.shorthand[1] \in DOMAIN reg.shorthand_names
    THEN [panic |-> TRUE, reg |-> reg]
    ELSE [panic |-> FALSE,
          reg |-> [flags |-> (flag.name :> flag) @@ reg.flags,
                   shorthand_names |->
                       IF flag.shorthand = None THEN reg.shorthand_names
                       ELSE (flag.shorthand[1] :> flag.name) @@ reg.shorthand_names]]

RECURSIVE AddAll(_, _)
AddAll(reg, list) ==
    IF list = <<>> THEN reg ELSE AddAll(add(reg, Head(list)).reg, Tail(list))

----------------------------------------------------------------------------
(* serde_json::Value *)

JNull == [t |-> "Null"]
JBool(b) == [t |-> "Bool", b |-> b]
JString(s) == [t |-> "String", s |-> s]
\* a JSON number written without fraction or exponent (serde's PosInt / NegInt);
\* every number is kept as m / 10^e
JInt(n) == [t |-> "Number", float |-> FALSE, n |-> [m |-> n, e |-> 0]]
\* a JSON number written with a fraction (serde's Float), m / 10^e
JFloat(m, e) == [t |-> "Number", float |-> TRUE, n |-> NormFloat(m, e)]
JArray(a) == [t |-> "Array", a |-> a]
\* an object: its (name, value) entries in the order the map iterates them
JObject(entries) == [t |-> "Object", entries |-> entries]

\* Number::as_i64 / as_i128 (all integers of the model fit both widths)
as_int(number) == IF number.float THEN None ELSE Some(number.n.m)

\* Number::as_f64
as_f64(number) == Some(number.n)

\* The number accessor parse_json uses for a flag variant
NumberAs(tag, number) ==
    IF tag \in {"Float64", "Float64Array"} THEN as_f64(number) ELSE as_int(number)

PropertyErr(name, what) == [kind |-> "Property", name |-> name, what |-> what]

\* *v = b, *v = s, *v = n: the assignment of a scalar branch of parse_json
AssignScalar_keep_first(flag, x) ==
    IF flag.value = flag.default_value
    THEN [flag EXCEPT !.value = FlagValue(flag.value.tag, x)]
    ELSE flag

AssignScalar(flag, x) == [flag EXCEPT !.value = FlagValue(flag.value.tag, x)]

\* parse_json, scalar branches: Value::Bool, Value::String, Value::Number and
\* the catch-all arm (null, object)
parse_json_scalar(flag, name, value) ==
    CASE value.t = "Bool" ->
            IF flag.value.tag = "Bool"
            THEN [ok |-> TRUE, flag |-> AssignScalar(flag, value.b)]
            ELSE [ok |-> FALSE, flag |-> flag, err |-> PropertyErr(name, "is not of type bool!")]
      [] value.t = "String" ->
            IF flag.value.tag = "String"
            THEN [ok |-> TRUE, flag |-> AssignScalar(flag, value.s)]
            ELSE [ok |-> FALSE, flag |-> flag, err |-> PropertyErr(name, "is not of type string!")]
      [] value.t = "Number" ->
            IF flag.value.tag \in {"Int64", "Int128", "Float64"}
            THEN LET n == NumberAs(flag.value.tag, value)
                 IN  IF n /= None
                     THEN [ok |-> TRUE, flag |-> AssignScalar(flag, n[1])]
                     ELSE [ok |-> FALSE, flag |-> flag,
                           err |-> PropertyErr(name, "could not be parsed")]
            ELSE [ok |-> FALSE, flag |-> flag, err |-> PropertyErr(name, "is not of type number!")]
      [] OTHER -> [ok |-> FALSE, flag |-> flag, err |-> PropertyErr(name, "is of the wrong type!")]

\* if i == 0 { *v = vec![x] } else { v.push(x) }
SetOrPush_always_push(flag, i, x) ==
    [flag EXCEPT !.value = FlagValue(flag.value.tag, Append(flag.value.v, x))]

SetOrPush(flag, i, x) ==
    [flag EXCEPT !.value =
        FlagValue(flag.value.tag, IF i = 0 THEN <<x>> ELSE Append(flag.value.v, x))]

\* parse_json, Value::Array branch: the loop over array.iter().enumerate(),
\* from element i (0-based) on; an Err leaves the elements written before it
RECURSIVE parse_json_array(_, _, _, _)
parse_json_array(flag, name, array, i) ==
    IF i >= Len(array) THEN [ok |-> TRUE, flag |-> flag]
    ELSE LET array_value == array[i + 1]
         IN  CASE array_value.t = "String" ->
                    IF flag.value.tag = "StringArray"
                    THEN parse_json_array(SetOrPush(flag, i, array_value.s), name, array, i + 1)
                    ELSE [ok |-> FALSE, flag |-> flag,
                          err |-> PropertyErr(name, "is not of type string[]!")]
               [] array_value.t = "Number" ->
                    IF flag.value.tag \in {"Int64Array", "Int128Array", "Float64Array"}
                    THEN LET n == NumberAs(flag.value.tag, array_value)
                         IN  IF n /= None
                             THEN parse_json_array(SetOrPush(flag, i, n[1]), name, array, i + 1)
                             ELSE [ok |-> FALSE, flag |-> flag,
                                   err |-> PropertyErr(name, "could not be parsed")]
                    ELSE [ok |-> FALSE, flag |-> flag,
                          err |-> PropertyErr(name, "is not of type number[]!")]
               [] OTHER -> parse_json_array(flag, name, array, i + 1)

\* parse_json, the loop over the object's entries; an Err returns at once and
\* keeps what the entries before it wrote
RECURSIVE parse_json_entries(_, _)
parse_json_entries(fl, entries) ==
    IF entries = <<>> THEN [ok |-> TRUE, flags |-> fl]
    ELSE LET name  == Head(entries)[1]
             value == Head(entries)[2]
         IN  IF name \notin DOMAIN fl
             THEN [ok |-> FALSE, flags |-> fl,
                   err |-> [kind |-> "Unknown property", name |-> name]]
             ELSE LET r == IF value.t = "Array"
                           THEN parse_json_array(fl[name], name, value.a, 0)
                           ELSE parse_json_scalar(fl[name], name, value)
                      fl2 == [fl EXCEPT ![name] = r.flag]
                  IN  IF r.ok THEN parse_json_entries(fl2, Tail(entries))
                      ELSE [ok |-> FALSE, flags |-> fl2, err |-> r.err]

\* The text of a config file is what serde_json::from_str makes of it: a
\* syntax error, or a Value
BadJson == [valid |-> FALSE]
JsonText(data) == [valid |-> TRUE, data |-> data]

\* Flags::parse_json
parse_json(fl, json) ==
    IF ~json.valid
    THEN [ok |-> FALSE, flags |-> fl, err |-> [kind |-> "Failed to parse JSON"]]
    ELSE IF json.data.t /= "Object"
    THEN [ok |-> FALSE, flags |-> fl, err |-> [kind |-> "Config must be a JSON Object"]]
    ELSE parse_json_entries(fl, json.data.entries)

\* A registered config-file path as the file system shows it: no such path,
\* a path File::open fails on, or a file and the text read from it (after a
\* failed read_to_string, the text read before the failure)
MissingFile == [exists |-> FALSE]
UnopenableFile == [exists |-> TRUE, opens |-> FALSE]
ConfigFile(json) == [exists |-> TRUE, opens |-> TRUE, json |-> json]

\* Phase 1, the body of `for path in &self.config_files`: the Err of
\* File::open or of parse_json is printed, not returned
read_config_file(fl, file) ==
    IF file.exists /\ file.opens THEN parse_json(fl, file.json).flags ELSE fl

----------------------------------------------------------------------------
(* Flags::parse_args, one token at a time *)

\* format!("Unknown flag: --{name}") and format!("Unknown flag: -{c}")
UnknownFlag(text) == [kind |-> "Unknown flag: ", flag |-> text]

\* The parser's state: the registry fields it writes and its two locals
ParserState(fl, pos, need, aspos) ==
    [flags |-> fl, positionals |-> pos, need_value_for_name |-> need, as_positionals |-> aspos]

\* The loop over shorthands.chars() of a short-form token
RECURSIVE parse_shorthands_skip_unknown(_, _, _)
parse_shorthands_skip_unknown(st, sn, chars) ==
    IF chars = <<>> THEN [res |-> Ok, st |-> st]
    ELSE LET c == Head(chars)
         IN  IF c \notin DOMAIN sn
             THEN parse_shorthands_skip_unknown(st, sn, Tail(chars))
             ELSE IF st.flags[sn[c]].value.tag = "Bool"
             THEN parse_shorthands_skip_unknown(
                      [st EXCEPT !.flags[sn[c]].value = FlagValue("Bool", TRUE)], sn, Tail(chars))
             ELSE parse_shorthands_skip_unknown(
                      [st EXCEPT !.need_value_for_name = sn[c]], sn, Tail(chars))

RECURSIVE parse_shorthands(_, _, _)
parse_shorthands(st, sn, chars) ==
    IF chars = <<>> THEN [res |-> Ok, st |-> st]
    ELSE LET c == Head(chars)
         IN  IF c \notin DOMAIN sn
             THEN [res |-> Err(UnknownFlag(<<"-", c>>)), st |-> st]
             ELSE IF sn[c] \notin DOMAIN st.flags
             THEN [res |-> Panic("shorthand_names contains key, but flags does not"), st |-> st]
             ELSE IF st.flags[sn[c]].value.tag = "Bool"
             THEN parse_shorthands(
                      [st EXCEPT !.flags[sn[c]].value = FlagValue("Bool", TRUE)], sn, Tail(chars))
             ELSE parse_shorthands([st EXCEPT !.need_value_for_name = sn[c]], sn, Tail(chars))

\* self.positionals.push(arg)
push_positional_front(st, arg) == [st EXCEPT !.positionals = <<arg>> \o @]

push_positional(st, arg) == [st EXCEPT !.positionals = Append(@, arg)]

\* The branch for a token read while as_positionals is set
parse_positional_only_toggle(st, arg) ==
    IF arg = <<"-", "-">> THEN [st EXCEPT !.as_positionals = FALSE]
    ELSE push_positional(st, arg)

parse_positional_only(st, arg) == push_positional(st, arg)

\* The branch for the token "--"
enter_positional_only_keep_token(st, arg) ==
    [st EXCEPT !.as_positionals = TRUE, !.positionals = Append(@, arg)]

enter_positional_only(st, arg) == [st EXCEPT !.as_positionals = TRUE]

\* The branch for a token that starts with "--"
parse_long_unknown_is_positional(st, arg) ==
    LET name == SliceFrom(arg, 2)
    IN  IF name \notin DOMAIN st.flags
        THEN [res |-> Ok, st |-> push_positional(st, arg)]
        ELSE IF st.flags[name].value.tag = "Bool"
        THEN [res |-> Ok, st |-> [st EXCEPT !.flags[name].value = FlagValue("Bool", TRUE)]]
        ELSE [res |-> Ok, st |-> [st EXCEPT !.need_value_for_name = name]]

parse_long_awaits_token(st, arg) ==
    LET name == SliceFrom(arg, 2)
    IN  IF name \notin DOMAIN st.flags
        THEN [res |-> Err(UnknownFlag(<<"-", "-">> \o name)), st |-> st]
        ELSE IF st.flags[name].value.tag = "Bool"
        THEN [res |-> Ok, st |-> [st EXCEPT !.flags[name].value = FlagValue("Bool", TRUE)]]
        ELSE [res |-> Ok, st |-> [st EXCEPT !.need_value_for_name = arg]]

parse_long_bool_awaits_value(st, arg) ==
    LET name == SliceFrom(arg, 2)
    IN  IF name \notin DOMAIN st.flags
        THEN [res |-> Err(UnknownFlag(<<"-", "-">> \o name)), st |-> st]
        ELSE [res |-> Ok, st |-> [st EXCEPT !.need_value_for_name = name]]

parse_long(st, arg) ==
    LET name == SliceFrom(arg, 2)
    IN  IF name \notin DOMAIN st.flags
        THEN [res |-> Err(UnknownFlag(<<"-", "-">> \o name)), st |-> st]
        ELSE IF st.flags[name].value.tag = "Bool"
        THEN [res |-> Ok, st |-> [st EXCEPT !.flags[name].value = FlagValue("Bool", TRUE)]]
        ELSE [res |-> Ok, st |-> [st EXCEPT !.need_value_for_name = name]]

\* The branch for a token read while need_value_for_name is not empty
consume_value(st, arg) ==
    IF st.need_value_for_name \notin DOMAIN st.flags
    THEN [res |-> Panic("need_value_for_name set for unknown flag"), st |-> st]
    ELSE LET r == set_value_parsed(st.flags[st.need_value_for_name], arg)
         IN  IF r.ok
             THEN [res |-> Ok,
                   st |-> [st EXCEPT !.flags[st.need_value_for_name] = r.flag,
                                     !.need_value_for_name = <<>>]]
             ELSE [res |-> Failed(r), st |-> st]

\* The body of the loop `for arg in args`
parse_arg_terminator_first(st, sn, arg) ==
    IF st.as_positionals THEN [res |-> Ok, st |-> parse_positional_only(st, arg)]
    ELSE IF arg = <<"-">> THEN [res |-> Ok, st |-> push_positional(st, arg)]
    ELSE IF arg = <<"-", "-">> THEN [res |-> Ok, st |-> enter_positional_only(st, arg)]
    ELSE IF st.need_value_for_name /= <<>> THEN consume_value(st, arg)
    ELSE IF starts_with(arg, <<"-", "-">>) THEN parse_long(st, arg)
    ELSE IF starts_with(arg, <<"-">>) THEN parse_shorthands(st, sn, SliceFrom(arg, 1))
    ELSE [res |-> Ok, st |-> push_positional(st, arg)]

parse_arg(st, sn, arg) ==
    IF st.as_positionals THEN [res |-> Ok, st |-> parse_positional_only(st, arg)]
    ELSE IF st.need_value_for_name /= <<>> THEN consume_value(st, arg)
    ELSE IF arg = <<"-">> THEN [res |-> Ok, st |-> push_positional(st, arg)]
    ELSE IF arg = <<"-", "-">> THEN [res |-> Ok, st |-> enter_positional_only(st, arg)]
    ELSE IF starts_with(arg, <<"-", "-">>) THEN parse_long(st, arg)
    ELSE IF starts_with(arg, <<"-">>) THEN parse_shorthands(st, sn, SliceFrom(arg, 1))
    ELSE [res |-> Ok, st |-> push_positional(st, arg)]

\* What the loop body did with a token, by the branch it took
RoleOf(st, arg) ==
    IF st.as_positionals THEN [role |-> "positional"]
    ELSE IF st.need_value_for_name /= <<>>
    THEN [role |-> "value", name |-> st.need_value_for_name]
    ELSE IF arg = <<"-">> THEN [role |-> "positional"]
    ELSE IF arg = <<"-", "-">> THEN [role |-> "terminator"]
    ELSE IF starts_with(arg, <<"-", "-">>) THEN [role |-> "long", name |-> SliceFrom(arg, 2)]
    ELSE IF starts_with(arg, <<"-">>) THEN [role |-> "short"]
    ELSE [role |-> "positional"]

----------------------------------------------------------------------------
(* The registry the application builds: one flag of every variant *)

host == <<"h","o","s","t">>
port == <<"p","o","r","t">>
max_size == <<"m","a","x","-","s","i","z","e">>
timeout == <<"t","i","m","e","o","u","t">>
debug == <<"d","e","b","u","g">>
timeout_sec == <<"t","i","m","e","o","u","t","-","s","e","c">>
user == <<"u","s","e","r">>
udp_port == <<"u","d","p","-","p","o","r","t">>
ids == <<"i","d","s">>
weights == <<"w","e","i","g","h","t","s">>

SampleFlagList ==
    << WithShorthand(NewFlag(host, FlagValue("String", <<>>)), "h"),
       WithShorthand(NewFlag(port, FlagValue("Int64", 80)), "p"),
       NewFlag(max_size, FlagValue("Int128", 10000)),
       WithShorthand(NewFlag(timeout, FlagValue("Bool", FALSE)), "t"),
       WithShorthand(NewFlag(debug, FlagValue("Bool", FALSE)), "d"),
       NewFlag(timeout_sec, FlagValue("Float64", [m |-> 10, e |-> 0])),
       WithShorthand(WithEnvVarDelimiter(NewFlag(user, FlagValue("StringArray", <<>>)), <<",">>), "u"),
       WithShorthand(WithEnvVarDelimiter(NewFlag(udp_port, FlagValue("Int64Array", <<1, 2>>)), <<",">>), "U"),
       NewFlag(ids, FlagValue("Int128Array", <<7>>)),
       WithEnvVarDelimiter(NewFlag(weights, FlagValue("Float64Array", <<>>)), <<"-">>) >>

sample_flags == AddAll(NewFlags, SampleFlagList)

Names == DOMAIN sample_flags.flags
ScalarNames == {n \in Names : sample_flags.flags[n].default_value.tag \in ScalarTags}
ArrayNames == Names \ ScalarNames

Long(name) == <<"-", "-">> \o name
Short(c) == <<"-", c>>

----------------------------------------------------------------------------
(* The inputs of load(): config files, environment, arguments *)

MaxFiles == 2
MaxArgs == 4
MaxLoads == 2
MaxNameLen == 2
MaxParses == 2
MaxAdds == 3

\* All sequences over S of length at most n
RECURSIVE SeqsUpTo(_, _)
SeqsUpTo(S, n) ==
    IF n = 0 THEN {<<>>}
    ELSE LET shorter == SeqsUpTo(S, n - 1)
         IN  shorter \cup {Append(q, x) : q \in {r \in shorter : Len(r) = n - 1}, x \in S}

\* Config files; the entries of an object are in key order, as serde_json's
\* map iterates them
FileA == ConfigFile(JsonText(JObject(<<
            <<host, JString(<<"a">>)>>, <<max_size, JInt(5)>>, <<port, JInt(1)>>,
            <<timeout, JBool(TRUE)>>, <<timeout_sec, JFloat(15, 1)>>,
            <<udp_port, JArray(<<JInt(3), JInt(4)>>)>>,
            <<user, JArray(<<JString(<<"a">>), JString(<<"b">>)>>)>> >>)))
FileB == ConfigFile(JsonText(JObject(<<
            <<host, JString(<<"b">>)>>, <<ids, JArray(<<JInt(8), JInt(9)>>)>>,
            <<port, JInt(2)>>, <<udp_port, JArray(<<JInt(5)>>)>>,
            <<user, JArray(<<JString(<<"c">>)>>)>>,
            <<weights, JArray(<<JFloat(5, 1), JInt(2)>>)>> >>)))
FileEmptyArrays == ConfigFile(JsonText(JObject(<<
            <<udp_port, JArray(<<>>)>>, <<user, JArray(<<>>)>> >>)))
FileMismatch == ConfigFile(JsonText(JObject(<<
            <<host, JString(<<"q">>)>>, <<port, JString(<<"x">>)>>,
            <<user, JArray(<<JString(<<"z">>)>>)>> >>)))
FileMixedArray == ConfigFile(JsonText(JObject(<<
            <<udp_port, JArray(<<JNull, JInt(6)>>)>>,
            <<user, JArray(<<JString(<<"m">>), JInt(1)>>)>> >>)))
FileNotObject == ConfigFile(JsonText(JArray(<<JInt(1)>>)))
FileBadJson == ConfigFile(BadJson)
FileUnknownProperty == ConfigFile(JsonText(JObject(<<
            <<debug, JBool(TRUE)>>, <<<<"n","o","p","e">>, JInt(1)>>,
            <<port, JInt(9)>> >>)))

\* The config files phase 1 finds fault with
FaultyFiles == {MissingFile, UnopenableFile, FileBadJson, FileNotObject,
                FileUnknownProperty, FileMismatch}

FileSamples == {FileA, FileB, FileEmptyArrays, FileMismatch, FileMixedArray,
                FileNotObject, FileBadJson, MissingFile}

\* JSON values of every shape, and the config files with one property that
\* give one of them to one registered flag
JsonSamples ==
    { JNull, JBool(TRUE), JString(<<"s">>), JInt(4), JFloat(25, 1), JObject(<<>>),
      JArray(<<>>), JArray(<<JString(<<"a">>)>>), JArray(<<JInt(4)>>),
      JArray(<<JFloat(25, 1)>>),
      JArray(<<JString(<<"a">>), JInt(1)>>), JArray(<<JString(<<"a">>), JBool(TRUE)>>),
      JArray(<<JInt(4), JString(<<"a">>)>>), JArray(<<JNull, JInt(6)>>) }
ProbeFiles == {ConfigFile(JsonText(JObject(<< <<n, v>> >>))) : n \in Names, v \in JsonSamples}

\* Environments
EnvNone == << >>
EnvA == (<<"H","O","S","T">> :> <<"e">>) @@ (<<"P","O","R","T">> :> <<"2">>)
        @@ (<<"U","D","P","_","P","O","R","T">> :> <<"6", ",", "7">>)
EnvB == (<<"T","I","M","E","O","U","T">> :> <<"f","a","l","s","e">>)
        @@ (<<"T","I","M","E","O","U","T","_","S","E","C">> :> <<"2", ".", "5">>)
        @@ (<<"M","A","X","_","S","I","Z","E">> :> <<"6">>)
EnvC == (<<"U","S","E","R">> :> <<"x", ",", "y">>) @@ (<<"I","D","S">> :> <<"1">>)
        @@ (<<"W","E","I","G","H","T","S">> :> <<"1", "-", "2", ".", "5">>)
EnvBad == (<<"P","O","R","T">> :> <<"z">>)
          @@ (<<"U","D","P","_","P","O","R","T">> :> <<"6", ",", "x">>)

EnvSamples == {EnvNone, EnvA, EnvB, EnvC, EnvBad}

\* An environment with the variable of max-size and with keys that differ
\* from a variable's name in case or in the dash
EnvNearKeys ==
    (<<"M","A","X","_","S","I","Z","E">> :> <<"6">>)
    @@ (<<"m","a","x","-","s","i","z","e">> :> <<"9">>)
    @@ (<<"M","A","X","-","S","I","Z","E">> :> <<"9">>)
    @@ (<<"m","a","x","_","s","i","z","e">> :> <<"9">>)
    @@ (<<"p","o","r","t">> :> <<"9">>)
    @@ (<<"T","I","M","E","O","U","T","-","S","E","C">> :> <<"9">>)

\* Environments with a variable for ids, the array flag with no delimiter
IdsEnvs ==
    { (<<"I","D","S">> :> t) @@ (<<"H","O","S","T">> :> <<"e">>) :
          t \in {<<"1">>, <<"x">>, <<"1", ",", "2">>, <<>>} }

\* Argument lists that go with files and environments
ArgSamples ==
    { <<>>,
      <<Short("h"), <<"c">>, Long(udp_port), <<"9">>, <<"p","o","s">>>>,
      <<Long(port), <<"3">>, Long(timeout), Long(max_size), <<"7">>>>,
      <<Long(timeout_sec), <<"0", ".", "5">>, Short("u"), <<"k">>>>,
      <<Long(udp_port), <<"8">>, Short("U"), <<"9">>, Long(weights), <<"3">>>> }

\* Argument alphabets: the tokens of array flags, and the tokens that steer
\* the parser
ArrayTokens == {Long(udp_port), Short("U"), Short("u"), <<"3">>, <<"x">>}
ParserTokens == {<<"-">>, <<"-", "-">>, Long(port), <<"3">>,
                 Long(<<"n","o","p","e">>), <<"-", "d", "x">>}

\* Argument lists with a short-form cluster that holds the shorthands of
\* several flags, Bool and other
ClusterArgs ==
    { << <<"-", "h", "p">>, <<"7">>, <<"8">> >>,
      << <<"-", "p", "h">>, <<"7">>, <<"8">> >>,
      << <<"-", "d", "p", "t">>, <<"7">> >>,
      << <<"-", "u", "d", "U">>, <<"3">>, <<"-", "U", "u">>, <<"4">> >>,
      << <<"-", "h", "x", "p">>, <<"7">> >> }

\* Argument lists in which the token after a flag that needs a value has the
\* form of a flag, of the terminator or of the bare dash
ValueFormArgs ==
    { << Long(host), <<"-", "-">>, <<"p">>, Long(host), <<"-">> >>,
      << Short("h"), Long(port), <<"p">> >>,
      << Short("u"), Short("U"), Long(user), Long(<<"n","o","p","e">>), Short("u"), <<"-">> >>,
      << Long(port), <<"-", "5">>, <<"-", "-">>, <<"x">> >>,
      << Long(port), Long(host), <<"x">> >> }

\* Argument lists with the long form of Bool flags, followed by tokens of
\* several forms
BoolFlagArgs ==
    { << Long(timeout), <<"p","o","s">>, Long(debug), <<"-">>, Long(timeout),
         Long(port), <<"3">> >>,
      << Long(debug), <<"t","r","u","e">>, Long(debug), <<"-", "-">>,
         <<"f","a","l","s","e">> >> }

\* Argument lists that end with a fault after tokens that wrote: an unknown
\* shorthand behind two Bool shorthands, and a value that does not parse
FaultArgs ==
    { << Long(port), <<"3">>, <<"a">>, <<"-", "t", "d", "x", "h">> >>,
      << <<"a">>, Long(port), <<"3">>, Long(max_size), <<"z">> >> }

FileLists == SeqsUpTo(FileSamples, MaxFiles)
ArgLists == SeqsUpTo(ArrayTokens, MaxArgs) \cup SeqsUpTo(ParserTokens, MaxArgs)

LoadInput(f, e, a) == [config_files |-> f, env_vars |-> e, args |-> a]

\* What the first load() of a registry is given
FirstInputs ==
    {LoadInput(f, e, <<>>) : f \in FileLists, e \in EnvSamples}
    \cup {LoadInput(f, e, a) : f \in {<<>>, <<FileA>>}, e \in EnvSamples, a \in ArgSamples}
    \cup {LoadInput(<<>>, EnvNone, a) : a \in ArgLists}
    \cup {LoadInput(<<>>, EnvNone, a) : a \in ClusterArgs \cup ValueFormArgs \cup BoolFlagArgs}
    \cup {LoadInput(<<f>>, EnvNone, <<>>) : f \in ProbeFiles}
    \cup {LoadInput(<<FileA, f>>, EnvNone, <<>>) : f \in ProbeFiles}
    \cup {LoadInput(f, e, a) : f \in {<<>>, <<FileB>>}, e \in IdsEnvs,
                                a \in {<<>>, <<Long(ids), <<"3">>>>}}
    \cup {LoadInput(f, EnvNearKeys, <<>>) : f \in {<<>>, <<FileA>>}}
    \cup {LoadInput(<<f, FileB>>, EnvB, <<Long(port), <<"3">>, <<"a">>>>) : f \in FaultyFiles}
    \cup {LoadInput(<<FileB>>, EnvB, a) : a \in FaultArgs}

\* What a later load() of the same registry is given
ReloadInputs ==
    { LoadInput(<<>>, EnvA, <<>>),
      LoadInput(<<FileB>>, EnvNone, <<<<"a">>, Long(udp_port), <<"9">>>>) }

LoadInputs(n) == IF n = 0 THEN FirstInputs ELSE ReloadInputs

\* What load() is given after a set_value or an add
CallInputs ==
    { LoadInput(<<FileA>>, EnvA, <<>>),
      LoadInput(<<FileMixedArray>>, EnvC, <<Long(udp_port), <<"8">>, Short("u"), <<"k">>>>) }

\* What the n-th load() is given: one of a few inputs right after a
\* set_value or an add, and a registry with an added flag is loaded once
InputsAfter(c, n, fl) ==
    IF c.op \in {"set_value", "add"} THEN CallInputs
    ELSE IF DOMAIN fl = Names THEN LoadInputs(n)
    ELSE {}

\* Flags::append_values calls the application makes before load(): a value of
\* the flag's variant, of another array variant, and calls on scalar flags
PublicAppends ==
    << <<udp_port, FlagValue("Int64Array", <<5>>)>>,
       <<udp_port, FlagValue("StringArray", <<(<<"a">>)>>)>>,
       <<ids, FlagValue("Int64Array", <<5>>)>>,
       <<port, FlagValue("Int64Array", <<5>>)>>,
       <<host, FlagValue("String", <<"x">>)>> >>

\* One value of every variant, for the set_value calls
ValueSamples ==
    << FlagValue("Bool", TRUE), FlagValue("String", <<"v">>),
       FlagValue("Int64", 7), FlagValue("Int128", 7),
       FlagValue("Float64", [m |-> 75, e |-> 1]),
       FlagValue("StringArray", <<(<<"v">>)>>), FlagValue("Int64Array", <<7>>),
       FlagValue("Int128Array", <<7, 8>>),
       FlagValue("Float64Array", <<[m |-> 75, e |-> 1]>>) >>

\* What the application builds descriptors from: every short name over a
\* few characters, and a registered and a new name with shorthands the
\* constructor accepts and rejects, registered and new ones, with and without
\* a delimiter
NameChars == {"a", "9", "-", "A", " ", "_"}
NameSamples == SeqsUpTo(NameChars, MaxNameLen)
DefaultSamples ==
    << FlagValue("Bool", FALSE), FlagValue("Int64", 1), FlagValue("StringArray", <<>>) >>
ShorthandSamples == {None, Some("h"), Some("n"), Some("Z"), Some("5"), Some("$"), Some("-")}
DelimiterSamples == {None, Some(<<",">>)}
NewName == <<"n","e","w","-","1">>
AddInput(name, i, c, d) ==
    [name |-> name, default |-> i, shorthand |-> c, env_var_delimiter |-> d]
AddSamples ==
    {AddInput(name, 1, None, None) : name \in NameSamples}
    \cup {AddInput(name, i, c, d) : name \in {host, NewName}, i \in DOMAIN DefaultSamples,
                                    c \in ShorthandSamples, d \in DelimiterSamples}

\* Values of the scalar variants, and the texts set_value_parsed is given:
\* the text of each of these values, and texts near "true" and "false"
ScalarValues(tag) ==
    CASE tag = "Bool" -> {TRUE, FALSE}
      [] tag = "String" -> {<<>>, <<"a">>, <<"t","r","u","e">>, <<"-","x">>,
                            <<"1"," ","2">>, <<"-","-">>}
      [] tag \in {"Int64", "Int128"} -> {0 - 12, 0 - 1, 0, 7, 10, 305}
      [] tag = "Float64" -> {NormFloat(0, 0), NormFloat(25, 1), NormFloat(0 - 5, 1),
                             NormFloat(5, 2), NormFloat(10, 0), NormFloat(0 - 3, 0),
                             NormFloat(1005, 2)}
BoolProbes ==
    { <<"T","r","u","e">>, <<"T","R","U","E">>, <<"F","a","l","s","e">>, <<"t">>,
      <<"1">>, <<"0">>, <<"y","e","s">>, <<"n","o">>, <<" ","t","r","u","e">>,
      <<"t","r","u","e"," ">>, <<"f","a","l","s">>, <<"f","a","l","s","e","e">> }
TextSamples ==
    BoolProbes \cup UNION {{to_string(FlagValue(tag, v)) : v \in ScalarValues(tag)} :
                              tag \in ScalarTags}

\* The descriptors an application registers one after the other on a new
\* registry: a few names, each with no shorthand or one of two, and two
\* defaults
PoolNames == {<<"a">>, <<"b">>, <<"c", "-", "1">>}
PoolShorthands == {None, Some("x"), Some("Y")}
PoolDefaults == << FlagValue("Int64", 1), FlagValue("Int128", 1) >>
AddPool ==
    {AddInput(name, i, c, None) :
        name \in PoolNames, i \in DOMAIN PoolDefaults, c \in PoolShorthands}

----------------------------------------------------------------------------
(* State machine: the application's calls and the steps of Flags::load *)

\* No call but load() has been made on the registry
NoCall == [op |-> "none"]

\* usage::generate has not been called
NoUsage ==
    [pc |-> "none", width |-> 0, descriptions |-> [n \in Names |-> None],
     excluded |-> {}, names |-> <<>>, n |-> 0, desc |-> <<>>, l |-> 0,
     wrapped_width |-> 0, out |-> <<>>]

Init ==
    /\ flags = sample_flags.flags
    /\ shorthand_names = sample_flags.shorthand_names
    /\ positionals = <<>>
    /\ config_files = <<>>
    /\ env_vars = << >>
    /\ args = <<>>
    /\ pc = "idle"
    /\ file_idx = 0
    /\ env_left = {}
    /\ arg_idx = 0
    /\ need_value_for_name = <<>>
    /\ as_positionals = FALSE
    /\ result = "none"
    /\ loads = 0
    /\ fresh = TRUE
    /\ roles = <<>>
    /\ positionals0 = <<>>
    /\ call = NoCall
    /\ usage = NoUsage

\* The flags whose derived environment variable is in the mapping
EnvPresent(fl, env) == {n \in DOMAIN fl : get_env_var_name(fl[n]) \in DOMAIN env}

\* Where load() stands once n config files are read: more files, phase 2 for
\* the flags whose variable is present, or the marker reset
AfterFiles(fl, files, env, n) ==
    IF n < Len(files) THEN "files"
    ELSE IF EnvPresent(fl, env) /= {} THEN "env"
    ELSE "reset"

\* The application calls append_values on a registered flag; a panic ends
\* the program
AppendValues ==
    /\ pc = "idle"
    /\ fresh
    /\ call = NoCall
    /\ \E i \in DOMAIN PublicAppends :
          LET name == PublicAppends[i][1]
              value == PublicAppends[i][2]
              r == append_values(flags[name], value)
          IN  /\ call' = [op |-> "append_values", name |-> name, value |-> value]
              /\ flags' = [flags EXCEPT ![name] = r.flag]
              /\ IF r.panic
                 THEN pc' = "panicked" /\ result' = Panic("append_values")
                 ELSE pc' = pc /\ result' = result
    /\ fresh' = FALSE
    /\ UNCHANGED <<shorthand_names, positionals, config_files, env_vars, args,
                   file_idx, env_left, arg_idx, need_value_for_name,
                   as_positionals, loads, roles, positionals0, usage>>

\* The application calls set_value on a registered flag (get_mut(name).set_value)
SetValue ==
    /\ pc = "idle"
    /\ loads = 0
    /\ call = NoCall
    /\ \E name \in DOMAIN flags, i \in DOMAIN ValueSamples :
          LET r == set_value(flags[name], ValueSamples[i])
          IN  /\ call' = [op |-> "set_value", name |-> name, value |-> ValueSamples[i]]
              /\ flags' = [flags EXCEPT ![name] = r.flag]
              /\ IF r.panic
                 THEN pc' = "panicked" /\ result' = Panic("set_value")
                 ELSE pc' = pc /\ result' = result
    /\ UNCHANGED <<shorthand_names, positionals, config_files, env_vars, args,
                   file_idx, env_left, arg_idx, need_value_for_name,
                   as_positionals, loads, fresh, roles, positionals0, usage>>

\* Flag::new(name, default_value), then .shorthand(c) and
\* .env_var_delimiter(d) when the application asks for them
Descriptor(name, default_value, c, d) ==
    LET made == Flag_new(name, default_value)
    IN  IF made.panic THEN [panic |-> TRUE, at |-> "Flag::new"]
        ELSE LET short == IF c = None THEN made ELSE Flag_shorthand(made.flag, c[1])
             IN  IF short.panic THEN [panic |-> TRUE, at |-> "Flag::shorthand"]
                 ELSE [panic |-> FALSE,
                       flag |-> IF d = None THEN short.flag
                                ELSE WithEnvVarDelimiter(short.flag, d[1])]

\* The application builds a descriptor and registers it with Flags::add
Add ==
    /\ pc = "idle"
    /\ loads = 0
    /\ call = NoCall
    /\ \E in \in AddSamples :
          LET name == in.name
              i == in.default
              c == in.shorthand
              d == in.env_var_delimiter
              built == Descriptor(name, DefaultSamples[i], c, d)
              r == IF built.panic THEN [panic |-> TRUE, reg |-> NewFlags]
                   ELSE add([flags |-> flags, shorthand_names |-> shorthand_names],
                            built.flag)
          IN  /\ call' = [op |-> "add", name |-> name,
                          default_value |-> DefaultSamples[i],
                          shorthand |-> c, env_var_delimiter |-> d]
              /\ IF built.panic
                 THEN /\ pc' = "panicked" /\ result' = Panic(built.at)
                      /\ UNCHANGED <<flags, shorthand_names, usage>>
                 ELSE /\ flags' = r.reg.flags
                      /\ shorthand_names' = r.reg.shorthand_names
                      /\ IF r.panic
                         THEN pc' = "panicked" /\ result' = Panic("Flags::add")
                         ELSE pc' = pc /\ result' = result
    /\ UNCHANGED <<positionals, config_files, env_vars, args,
                   file_idx, env_left, arg_idx, need_value_for_name,
                   as_positionals, loads, fresh, roles, positionals0, usage>>

\* load() is called
LoadStart ==
    /\ pc = "idle"
    /\ loads < MaxLoads
    /\ \E in \in InputsAfter(call, loads, flags) :
          /\ config_files' = in.config_files
          /\ env_vars' = in.env_vars
          /\ args' = in.args
          /\ pc' = AfterFiles(flags, in.config_files, in.env_vars, 0)
          /\ env_left' = EnvPresent(flags, in.env_vars)
    /\ file_idx' = 0
    /\ arg_idx' = 0
    /\ need_value_for_name' = <<>>
    /\ as_positionals' = FALSE
    /\ result' = "none"
    /\ loads' = loads + 1
    /\ roles' = <<>>
    /\ positionals0' = positionals
    /\ UNCHANGED <<flags, shorthand_names, positionals, fresh, call, usage>>

\* Phase 1, one iteration, were the Err of parse_json returned with `?`
ReadConfigFile_fault_returns ==
    /\ pc = "files"
    /\ LET file == config_files[file_idx + 1]
           r == IF file.exists /\ file.opens THEN parse_json(flags, file.json)
                ELSE [ok |-> TRUE, flags |-> flags]
       IN  /\ flags' = r.flags
           /\ IF r.ok
              THEN /\ pc' = AfterFiles(flags', config_files, env_vars, file_idx + 1)
                   /\ result' = result
              ELSE /\ pc' = "done"
                   /\ result' = Err(r.err)
    /\ file_idx' = file_idx + 1
    /\ UNCHANGED <<shorthand_names, positionals, config_files, env_vars, args,
                   env_left, arg_idx, need_value_for_name, as_positionals,
                   loads, fresh, roles, positionals0, call, usage>>

\* Phase 1, one iteration of `for path in &self.config_files`: a path that
\* does not exist is skipped, an Err of parse_json is printed and dropped
ReadConfigFile ==
    /\ pc = "files"
    /\ flags' = read_config_file(flags, config_files[file_idx + 1])
    /\ file_idx' = file_idx + 1
    /\ pc' = AfterFiles(flags', config_files, env_vars, file_idx + 1)
    /\ UNCHANGED <<shorthand_names, positionals, config_files, env_vars, args,
                   env_left, arg_idx, need_value_for_name, as_positionals,
                   result, loads, fresh, roles, positionals0, call, usage>>

\* for item in value.split(&delim) { flag.set_value_parsed(item)?; }
RECURSIVE set_items_rolls_back(_, _)
set_items_rolls_back(flag, items) ==
    IF items = <<>> THEN [ok |-> TRUE, flag |-> flag]
    ELSE LET r == set_value_parsed(flag, Head(items))
         IN  IF ~r.ok THEN r
             ELSE LET rest == set_items_rolls_back(r.flag, Tail(items))
                  IN  IF rest.ok THEN rest ELSE [rest EXCEPT !.flag = flag]

RECURSIVE set_items(_, _)
set_items(flag, items) ==
    IF items = <<>> THEN [ok |-> TRUE, flag |-> flag]
    ELSE LET r == set_value_parsed(flag, Head(items))
         IN  IF r.ok THEN set_items(r.flag, Tail(items)) ELSE r

\* Phase 2, the body of `for flag in self.flags.values_mut()` for a flag whose
\* variable is present
load_env_var_no_split(flag, value) ==
    IF flag.default_value.tag \in ArrayTags /\ flag.env_var_delimiter = None
    THEN [ok |-> TRUE, flag |-> flag]
    ELSE set_value_parsed(flag, value)

load_env_var_whole_text(flag, value) ==
    IF flag.default_value.tag \in ArrayTags /\ flag.env_var_delimiter /= None
    THEN set_items(flag, split(value, flag.env_var_delimiter[1]))
    ELSE set_value_parsed(flag, value)

load_env_var_fault_skipped(flag, value) ==
    LET r == IF flag.default_value.tag \in ArrayTags
             THEN IF flag.env_var_delimiter /= None
                  THEN set_items(flag, split(value, flag.env_var_delimiter[1]))
                  ELSE [ok |-> TRUE, flag |-> flag]
             ELSE set_value_parsed(flag, value)
    IN  [ok |-> TRUE, flag |-> r.flag]

load_env_var(flag, value) ==
    IF flag.default_value.tag \in ArrayTags
    THEN IF flag.env_var_delimiter /= None
         THEN set_items(flag, split(value, flag.env_var_delimiter[1]))
         ELSE [ok |-> TRUE, flag |-> flag]
    ELSE set_value_parsed(flag, value)

\* Phase 2, one iteration; the map visits the flags in any order, and the
\* iterations for flags whose variable is absent do nothing
ReadEnvVar ==
    /\ pc = "env"
    /\ \E name \in env_left :
          LET r == load_env_var(flags[name], env_vars[get_env_var_name(flags[name])])
          IN  /\ flags' = [flags EXCEPT ![name] = r.flag]
              /\ env_left' = env_left \ {name}
              /\ IF r.ok
                 THEN /\ pc' = IF env_left' = {} THEN "reset" ELSE "env"
                      /\ result' = result
                 ELSE /\ pc' = IF r.panic THEN "panicked" ELSE "done"
                      /\ result' = Failed(r)
    /\ UNCHANGED <<shorthand_names, positionals, config_files, env_vars, args,
                   file_idx, arg_idx, need_value_for_name, as_positionals,
                   loads, fresh, roles, positionals0, call, usage>>

\* for flag in self.flags.values_mut() { flag.is_set = false; }
clear_markers_none(fl) == fl

clear_markers_and_values(fl) ==
    [n \in DOMAIN fl |-> [fl[n] EXCEPT !.is_set = FALSE, !.value = fl[n].default_value]]

clear_markers(fl) == [n \in DOMAIN fl |-> [fl[n] EXCEPT !.is_set = FALSE]]

\* The marker reset between phase 2 and phase 3, and the entry of parse_args,
\* which returns Ok at once for an empty argument list
ResetMarkers ==
    /\ pc = "reset"
    /\ flags' = clear_markers(flags)
    /\ IF Len(args) = 0
       THEN pc' = "done" /\ result' = Ok
       ELSE pc' = "args" /\ result' = result
    /\ arg_idx' = 0
    /\ need_value_for_name' = <<>>
    /\ as_positionals' = FALSE
    /\ UNCHANGED <<shorthand_names, positionals, config_files, env_vars, args,
                   file_idx, env_left, loads, fresh, roles, positionals0, call, usage>>

\* Phase 3, one iteration, were a value still awaited after the last token
\* returned as a fault
ParseArg_missing_value_is_fault ==
    /\ pc = "args"
    /\ LET arg == args[arg_idx + 1]
           st  == ParserState(flags, positionals, need_value_for_name, as_positionals)
           r   == parse_arg(st, shorthand_names, arg)
       IN  /\ flags' = r.st.flags
           /\ positionals' = r.st.positionals
           /\ need_value_for_name' = r.st.need_value_for_name
           /\ as_positionals' = r.st.as_positionals
           /\ roles' = Append(roles, RoleOf(st, arg))
           /\ IF ~r.res.ok
              THEN /\ pc' = IF Panicked(r.res) THEN "panicked" ELSE "done"
                   /\ result' = r.res
              ELSE IF arg_idx + 1 = Len(args)
              THEN /\ pc' = "done"
                   /\ result' = IF r.st.need_value_for_name /= <<>>
                                 THEN Err([kind |-> "Missing value",
                                           flag |-> r.st.need_value_for_name])
                                 ELSE Ok
              ELSE pc' = "args" /\ result' = result
    /\ arg_idx' = arg_idx + 1
    /\ UNCHANGED <<shorthand_names, config_files, env_vars, args, file_idx,
                   env_left, loads, fresh, positionals0, call, usage>>

\* Phase 3, one iteration of `for arg in args`; after the last token
\* parse_args and load return Ok
ParseArg ==
    /\ pc = "args"
    /\ LET arg == args[arg_idx + 1]
           st  == ParserState(flags, positionals, need_value_for_name, as_positionals)
           r   == parse_arg(st, shorthand_names, arg)
       IN  /\ flags' = r.st.flags
           /\ positionals' = r.st.positionals
           /\ need_value_for_name' = r.st.need_value_for_name
           /\ as_positionals' = r.st.as_positionals
           /\ roles' = Append(roles, RoleOf(st, arg))
           /\ IF ~r.res.ok
              THEN /\ pc' = IF Panicked(r.res) THEN "panicked" ELSE "done"
                   /\ result' = r.res
              ELSE IF arg_idx + 1 = Len(args)
              THEN pc' = "done" /\ result' = Ok
              ELSE pc' = "args" /\ result' = result
    /\ arg_idx' = arg_idx + 1
    /\ UNCHANGED <<shorthand_names, config_files, env_vars, args, file_idx,
                   env_left, loads, fresh, positionals0, call, usage>>

\* load() has returned; the application goes on with the registry
LoadReturn ==
    /\ pc = "done"
    /\ pc' = "idle"
    /\ config_files' = <<>>
    /\ env_vars' = << >>
    /\ args' = <<>>
    /\ file_idx' = 0
    /\ env_left' = {}
    /\ arg_idx' = 0
    /\ need_value_for_name' = <<>>
    /\ as_positionals' = FALSE
    /\ result' = "none"
    /\ roles' = <<>>
    /\ fresh' = FALSE
    /\ positionals0' = positionals
    /\ call' = NoCall
    /\ UNCHANGED <<flags, shorthand_names, positionals, loads, usage>>

Next ==
    \/ AppendValues
    \/ SetValue
    \/ Add
    \/ LoadStart
    \/ ReadConfigFile
    \/ ReadEnvVar
    \/ ResetMarkers
    \/ ParseArg
    \/ LoadReturn

Spec == Init /\ [][Next]_vars

\* set_value_parsed called on a flag of the registry, as test_set_value_parsed
\* calls it: some flag first, then the same flag again
ParseCalls == IF call = NoCall THEN 0 ELSE call.n

SetValueParsed ==
    /\ pc = "idle"
    /\ loads = 0
    /\ call.op \in {"none", "set_value_parsed"}
    /\ ParseCalls < MaxParses
    /\ \E name \in (IF call = NoCall THEN DOMAIN flags ELSE {call.name}),
          text \in TextSamples :
          LET r == set_value_parsed(flags[name], text)
          IN  /\ flags' = [flags EXCEPT ![name] = r.flag]
              /\ call' = [op |-> "set_value_parsed", name |-> name, text |-> text,
                          n |-> ParseCalls + 1,
                          res |-> IF r.ok THEN Ok ELSE Failed(r)]
    /\ UNCHANGED <<shorthand_names, positionals, config_files, env_vars, args, pc,
                   file_idx, env_left, arg_idx, need_value_for_name,
                   as_positionals, result, loads, fresh, roles, positionals0, usage>>

\* The flags of the registry under calls of set_value_parsed alone
ParseSpec == Init /\ [][SetValueParsed]_vars

\* Flags::new(): no flag, no shorthand, no positional, no config file
NewRegistry ==
    /\ flags = NewFlags.flags
    /\ shorthand_names = NewFlags.shorthand_names
    /\ positionals = <<>>
    /\ config_files = <<>>
    /\ env_vars = << >>
    /\ args = <<>>
    /\ pc = "idle"
    /\ file_idx = 0
    /\ env_left = {}
    /\ arg_idx = 0
    /\ need_value_for_name = <<>>
    /\ as_positionals = FALSE
    /\ result = "none"
    /\ loads = 0
    /\ fresh = TRUE
    /\ roles = <<>>
    /\ positionals0 = <<>>
    /\ call = NoCall
    /\ usage = NoUsage

\* The application registers one more descriptor.  A rejected add panics
\* before it has written anything; an application that catches the panic
\* goes on with the registry as add left it
AddCalls == IF call = NoCall THEN 0 ELSE call.n
AddRejections == IF call = NoCall THEN 0 ELSE call.rejected

AddFlag ==
    /\ pc = "idle"
    /\ AddCalls < MaxAdds
    /\ \E in \in AddPool :
          LET built == Descriptor(in.name, PoolDefaults[in.default], in.shorthand,
                                  in.env_var_delimiter)
              r == add([flags |-> flags, shorthand_names |-> shorthand_names], built.flag)
          IN  /\ flags' = r.reg.flags
              /\ shorthand_names' = r.reg.shorthand_names
              /\ call' = [op |-> "add", name |-> in.name, shorthand |-> in.shorthand,
                          panic |-> r.panic, n |-> AddCalls + 1,
                          rejected |-> AddRejections + (IF r.panic THEN 1 ELSE 0)]
    /\ UNCHANGED <<positionals, config_files, env_vars, args, pc,
                   file_idx, env_left, arg_idx, need_value_for_name,
                   as_positionals, result, loads, fresh, roles, positionals0, usage>>

\* A registry built from Flags::new() by calls of add alone
AddSpec == NewRegistry /\ [][AddFlag]_vars

\* load() as one function of what it is given, with one order of visiting:
\* the entries of an object as they are listed, the flags of phase 2 one
\* chosen name after the other
RECURSIVE read_config_files(_, _)
read_config_files(fl, files) ==
    IF files = <<>> THEN fl
    ELSE read_config_files(read_config_file(fl, Head(files)), Tail(files))

RECURSIVE read_env_vars(_, _, _)
read_env_vars(fl, env, names) ==
    IF names = {} THEN [ok |-> TRUE, flags |-> fl]
    ELSE LET name == CHOOSE n \in names : TRUE
             r == load_env_var(fl[name], env[get_env_var_name(fl[name])])
             fl2 == [fl EXCEPT ![name] = r.flag]
         IN  IF r.ok THEN read_env_vars(fl2, env, names \ {name})
             ELSE [ok |-> FALSE, panic |-> r.panic, flags |-> fl2, err |-> r.err]

RECURSIVE parse_args(_, _, _)
parse_args(st, sn, tokens) ==
    IF tokens = <<>> THEN [res |-> Ok, st |-> st]
    ELSE LET r == parse_arg(st, sn, Head(tokens))
         IN  IF r.res.ok THEN parse_args(r.st, sn, Tail(tokens)) ELSE r

load(fl, sn, pos, files, env, tokens) ==
    LET fl1 == read_config_files(fl, files)
        r2  == read_env_vars(fl1, env, EnvPresent(fl1, env))
    IN  IF ~r2.ok
        THEN [res |-> Failed(r2), flags |-> r2.flags, positionals |-> pos]
        ELSE LET r3 == parse_args(ParserState(clear_markers(r2.flags), pos, <<>>, FALSE),
                                  sn, tokens)
             IN  [res |-> r3.res, flags |-> r3.st.flags,
                  positionals |-> r3.st.positionals]

\* The orders in which n things can be visited
RECURSIVE Orders(_)
Orders(S) ==
    IF S = {} THEN {<<>>}
    ELSE UNION {{<<i>> \o o : o \in Orders(S \ {i})} : i \in S}

\* The texts a config file's object can be iterated as: serde_json's map
\* yields the entries in key order, or in the order of the file's text when
\* built with preserve_order, and the text may list the keys in any order
KeyOrders(json) ==
    IF json.valid /\ json.data.t = "Object"
    THEN LET e == json.data.entries
         IN  {JsonText(JObject([i \in 1..Len(e) |-> e[o[i]]])) : o \in Orders(1..Len(e))}
    ELSE {json}

\* Config files of at most three properties, with and without a fault
FileC == ConfigFile(JsonText(JObject(<<
            <<host, JString(<<"c">>)>>, <<port, JInt(7)>>,
            <<user, JArray(<<JString(<<"d">>)>>)>> >>)))
KeyOrderFiles == {FileC, FileEmptyArrays, FileMismatch, FileMixedArray,
                  FileUnknownProperty}
KeyOrderInputs ==
    {LoadInput(f, e, a) : f \in SeqsUpTo(KeyOrderFiles, MaxFiles), e \in EnvSamples,
                          a \in {<<>>, <<Long(port), <<"3">>, <<"a">>>>}}

\* load() is called on the registry as it was built
LoadStartAsBuilt ==
    /\ pc = "idle"
    /\ loads = 0
    /\ \E in \in KeyOrderInputs :
          /\ config_files' = in.config_files
          /\ env_vars' = in.env_vars
          /\ args' = in.args
          /\ pc' = AfterFiles(flags, in.config_files, in.env_vars, 0)
          /\ env_left' = EnvPresent(flags, in.env_vars)
    /\ file_idx' = 0
    /\ arg_idx' = 0
    /\ need_value_for_name' = <<>>
    /\ as_positionals' = FALSE
    /\ result' = "none"
    /\ loads' = loads + 1
    /\ roles' = <<>>
    /\ positionals0' = positionals
    /\ UNCHANGED <<flags, shorthand_names, positionals, fresh, call, usage>>

\* Phase 1, one iteration, the map iterating the object in one of its orders
ReadConfigFileInKeyOrder ==
    /\ pc = "files"
    /\ LET file == config_files[file_idx + 1]
       IN  IF file.exists /\ file.opens
           THEN \E json \in KeyOrders(file.json) :
                    flags' = read_config_file(flags, ConfigFile(json))
           ELSE flags' = read_config_file(flags, file)
    /\ file_idx' = file_idx + 1
    /\ pc' = AfterFiles(flags', config_files, env_vars, file_idx + 1)
    /\ UNCHANGED <<shorthand_names, positionals, config_files, env_vars, args,
                   env_left, arg_idx, need_value_for_name, as_positionals,
                   result, loads, fresh, roles, positionals0, call, usage>>

KeyOrderNext ==
    \/ LoadStartAsBuilt
    \/ ReadConfigFileInKeyOrder
    \/ ReadEnvVar
    \/ ResetMarkers
    \/ ParseArg
    \/ LoadReturn

\* One load() of the registry as built, every order of visiting open
KeyOrderSpec == Init /\ [][KeyOrderNext]_vars

----------------------------------------------------------------------------
(* usage::generate.  Flag.description and Flag.exclude_from_usage, which
   nothing but generate reads, are kept with the call; the texts are ASCII,
   so that desc.len() is the number of chars, and writes to w do not fail *)

MaxWidth == 20
MaxLines == 6

indentation == <<" ", " ", " ", " ">>

\* names.sort(): the order of str on names of a-z, 0-9 and dash
CharsInOrder == <<"-">> \o Digits \o LowerCase

RECURSIVE TextBefore(_, _)
TextBefore(a, b) ==
    IF a = <<>> THEN b /= <<>>
    ELSE IF b = <<>> THEN FALSE
    ELSE IF Head(a) = Head(b) THEN TextBefore(Tail(a), Tail(b))
    ELSE IndexOf(Head(a), CharsInOrder) < IndexOf(Head(b), CharsInOrder)

\* the i-th name is the one with i - 1 names before it
sorted_names(S) ==
    [i \in 1..Cardinality(S) |->
        CHOOSE x \in S : Cardinality({y \in S : TextBefore(y, x)}) = i - 1]

\* [String]::join
RECURSIVE join(_, _)
join(pieces, sep) ==
    IF pieces = <<>> THEN <<>>
    ELSE IF Len(pieces) = 1 THEN pieces[1]
    ELSE pieces[1] \o sep \o join(Tail(pieces), sep)

\* The text generate shows a default value as
default_text(value) ==
    IF value.tag \in ScalarTags THEN to_string(value)
    ELSE LET element_tag == CASE value.tag = "StringArray" -> "String"
                              [] value.tag = "Int64Array" -> "Int64"
                              [] value.tag = "Int128Array" -> "Int128"
                              [] value.tag = "Float64Array" -> "Float64"
             strings == [i \in DOMAIN value.v |-> to_string(FlagValue(element_tag, value.v[i]))]
         IN  <<"[">> \o join(strings, <<",", " ">>) \o <<"]">>

\* desc: the description followed by " (default: {value})"
describe(description, default_value) ==
    description \o <<" ", "(", "d", "e", "f", "a", "u", "l", "t", ":", " ">>
                \o default_text(default_value) \o <<")">>

\* "--name" or "--name / -c"
header(flag) ==
    <<"-", "-">> \o flag.name
    \o (IF flag.shorthand = None THEN <<>> ELSE <<" ", "/", " ", "-", flag.shorthand[1]>>)

Min(a, b) == IF a < b THEN a ELSE b

\* The inner while of the wrapping loop, from a wrapped_width on: it steps
\* back while chars[l + wrapped_width - 1] is no space.  chars is indexed
\* from 0 in the source; l + wrapped_width - 1 with l + wrapped_width = 0
\* panics (the subtraction overflows, or the wrapped index is out of bounds)
RECURSIVE step_back(_, _, _, _)
step_back(chars, l, max_desc_width, wrapped_width) ==
    IF Len(chars) - l <= max_desc_width THEN [panic |-> FALSE, width |-> wrapped_width]
    ELSE IF l + wrapped_width = 0 THEN [panic |-> TRUE, width |-> wrapped_width]
    ELSE IF chars[l + wrapped_width] = " " THEN [panic |-> FALSE, width |-> wrapped_width]
    ELSE IF wrapped_width = 0
    THEN [panic |-> FALSE, width |-> Min(max_desc_width, Len(chars) - l)]
    ELSE step_back(chars, l, max_desc_width, wrapped_width - 1)

\* wrapped_width as the write of the line finds it
wrap(chars, l, max_desc_width) ==
    step_back(chars, l, max_desc_width, Min(max_desc_width, Len(chars) - l))

\* w.write of a line; the model keeps the first MaxLines lines of w
write_line(out, line) == IF Len(out) < MaxLines THEN Append(out, line) ELSE out

\* Descriptions, and the registries with some of the flags described
ShortWords == <<"a", "b", " ", "c", "d">>
LongFirstWord == <<"a","b","c","d","e","f","g","h","i","j","k","l","m","n","o","p","q",
                   " ", "r">>
LongLaterWord == <<"a", "b", " ",
                   "a","b","c","d","e","f","g","h","i","j","k","l","m","n","o","p","q">>
Described(f, text) == [n \in Names |-> IF n = f THEN Some(text) ELSE None]
DescriptionSamples ==
    { Described(debug, ShortWords), Described(port, LongFirstWord),
      Described(port, LongLaterWord), Described(host, <<>>),
      [n \in Names |-> IF n \in {debug, user} THEN Some(ShortWords) ELSE None],
      [n \in Names |-> IF n \in {debug, weights} THEN Some(ShortWords) ELSE None] }
Widths == (Len(indentation) + 1)..MaxWidth
UsageInputs ==
    {[width |-> w, descriptions |-> d, excluded |-> e] :
        w \in Widths, d \in DescriptionSamples, e \in {{}, {debug}}}

\* generate is called on the registry
GenerateStart ==
    /\ pc = "idle"
    /\ usage.pc = "none"
    /\ \E in \in UsageInputs :
          usage' = [NoUsage EXCEPT !.pc = "for", !.width = in.width,
                                   !.descriptions = in.descriptions,
                                   !.excluded = in.excluded,
                                   !.names = sorted_names(DOMAIN flags)]
    /\ UNCHANGED <<flags, shorthand_names, positionals, config_files, env_vars, args,
                   pc, file_idx, env_left, arg_idx, need_value_for_name,
                   as_positionals, result, loads, fresh, roles, positionals0, call>>

\* One pass of `for (n, name) in names.iter().enumerate()` up to the
\* wrapping loop: a flag with no description, or excluded, is passed over
NextFlag ==
    /\ usage.pc = "for"
    /\ usage.n < Len(usage.names)
    /\ LET name == usage.names[usage.n + 1]
           flag == flags[name]
       IN  IF usage.descriptions[name] = None \/ name \in usage.excluded
           THEN usage' = [usage EXCEPT !.n = @ + 1]
           ELSE LET desc == describe(usage.descriptions[name][1], flag.default_value)
                IN  usage' = [usage EXCEPT
                                 !.out = write_line(@, header(flag)),
                                 !.desc = desc,
                                 !.l = 0,
                                 !.pc = IF 0 < Len(desc) THEN "while" ELSE "write"]
    /\ UNCHANGED <<flags, shorthand_names, positionals, config_files, env_vars, args,
                   pc, file_idx, env_left, arg_idx, need_value_for_name,
                   as_positionals, result, loads, fresh, roles, positionals0, call>>

\* One pass of `while l < desc.len()` up to the write: wrapped_width is found
MeasureLine ==
    /\ usage.pc = "while"
    /\ LET r == wrap(usage.desc, usage.l, usage.width - Len(indentation))
       IN  usage' = [usage EXCEPT !.wrapped_width = r.width,
                                  !.pc = IF r.panic THEN "panicked" ELSE "write"]
    /\ UNCHANGED <<flags, shorthand_names, positionals, config_files, env_vars, args,
                   pc, file_idx, env_left, arg_idx, need_value_for_name,
                   as_positionals, result, loads, fresh, roles, positionals0, call>>

\* The rest of the pass: the line is written and l moves on by wrapped_width;
\* after the last line of a description, the empty line between two flags
WriteLine ==
    /\ usage.pc = "write"
    /\ LET l2   == usage.l + usage.wrapped_width
           line == indentation \o SubSeq(usage.desc, usage.l + 1, l2)
           out2 == write_line(usage.out, line)
       IN  IF l2 < Len(usage.desc)
           THEN usage' = [usage EXCEPT !.out = out2, !.l = l2, !.pc = "while"]
           ELSE usage' = [usage EXCEPT
                             !.out = IF usage.n /= Len(usage.names) - 1
                                     THEN write_line(out2, <<>>) ELSE out2,
                             !.l = l2, !.n = @ + 1, !.pc = "for"]
    /\ UNCHANGED <<flags, shorthand_names, positionals, config_files, env_vars, args,
                   pc, file_idx, env_left, arg_idx, need_value_for_name,
                   as_positionals, result, loads, fresh, roles, positionals0, call>>

\* w.flush() after the last name
GenerateReturn ==
    /\ usage.pc = "for"
    /\ usage.n = Len(usage.names)
    /\ usage' = [usage EXCEPT !.pc = "returned"]
    /\ UNCHANGED <<flags, shorthand_names, positionals, config_files, env_vars, args,
                   pc, file_idx, env_left, arg_idx, need_value_for_name,
                   as_positionals, result, loads, fresh, roles, positionals0, call>>

UsageNext ==
    \/ GenerateStart
    \/ NextFlag
    \/ MeasureLine
    \/ WriteLine
    \/ GenerateReturn

\* One call of generate on the registry as built
UsageSpec == Init /\ [][UsageNext]_vars

\* generate runs in one thread that nothing suspends: a step that can be
\* taken is taken
UsageFairSpec == UsageSpec /\ WF_vars(UsageNext)

----------------------------------------------------------------------------
(* Vocabulary of the properties *)

Tag(f) == flags[f].default_value.tag

\* The payload a text stands for in a flag of the given variant
Parses(tag, text) == ParserOf(tag, text).ok
Parsed(tag, text) == ParserOf(tag, text).v

\* The k-th smallest element of a finite set of numbers
Pick(S, k) == CHOOSE i \in S : Cardinality({j \in S : j < i}) = k - 1

\* The tokens parse_args has consumed so far as values of flag f, in order
ArgValueIndices(f) ==
    {i \in DOMAIN roles : roles[i] = [role |-> "value", name |-> f]}
ArgValues(f) ==
    [k \in 1..Cardinality(ArgValueIndices(f)) |-> args[Pick(ArgValueIndices(f), k)]]

\* A flag token read so far names f: its long form, or a short-form token
\* holding its shorthand
ArgNamed(f) ==
    \E i \in DOMAIN roles :
        \/ roles[i] = [role |-> "long", name |-> f]
        \/ /\ roles[i] = [role |-> "short"]
           /\ flags[f].shorthand /= None
           /\ flags[f].shorthand[1] \in Range(SliceFrom(args[i], 1))

\* The environment variable of f is in the mapping of this load
EnvGiven(f) == get_env_var_name(flags[f]) \in DOMAIN env_vars
EnvText(f) == env_vars[get_env_var_name(flags[f])]

\* A JSON value has the shape of a flag variant, and the payload it stands for
ElementCoerces(tag, x) ==
    CASE tag = "StringArray" -> x.t = "String"
      [] tag \in {"Int64Array", "Int128Array"} -> x.t = "Number" /\ ~x.float
      [] tag = "Float64Array" -> x.t = "Number"
      [] OTHER -> FALSE
ElementOf(tag, x) ==
    IF tag = "StringArray" THEN x.s
    ELSE IF tag = "Float64Array" THEN x.n
    ELSE x.n.m
Coerces(tag, x) ==
    CASE tag = "Bool" -> x.t = "Bool"
      [] tag = "String" -> x.t = "String"
      [] tag \in {"Int64", "Int128"} -> x.t = "Number" /\ ~x.float
      [] tag = "Float64" -> x.t = "Number"
      [] OTHER -> x.t = "Array" /\ \A i \in DOMAIN x.a : ElementCoerces(tag, x.a[i])
Coerced(tag, x) ==
    CASE tag = "Bool" -> x.b
      [] tag = "String" -> x.s
      [] tag \in {"Int64", "Int128"} -> x.n.m
      [] tag = "Float64" -> x.n
      [] OTHER -> [i \in DOMAIN x.a |-> ElementOf(tag, x.a[i])]

\* A config file is a readable JSON object
IsObjectFile(file) ==
    file.exists /\ file.opens /\ file.json.valid /\ file.json.data.t = "Object"

\* The file has a property named f
FileMentions(file, f) ==
    IsObjectFile(file) /\ \E k \in DOMAIN file.json.data.entries : file.json.data.entries[k][1] = f

\* The file sets f: its property f has the shape of f's variant, and so has
\* every property before it (a fault before it would end the file)
FileSets(file, f) ==
    /\ IsObjectFile(file)
    /\ \E k \in DOMAIN file.json.data.entries :
          /\ file.json.data.entries[k][1] = f
          /\ \A j \in 1..k :
                LET e == file.json.data.entries[j]
                IN  e[1] \in Names /\ Coerces(sample_flags.flags[e[1]].default_value.tag, e[2])
FileValue(file, f) ==
    LET k == CHOOSE k \in DOMAIN file.json.data.entries : file.json.data.entries[k][1] = f
    IN  Coerced(Tag(f), file.json.data.entries[k][2])

Running == pc /= "idle"
ReturnedOk == pc = "done" /\ result = Ok

----------------------------------------------------------------------------
(* C1: last phase wins for scalars *)

\* The value the arguments read so far give a scalar flag: true for a Bool
\* flag that a flag token names, the last consumed value for the others
ArgGiven(f) ==
    IF Tag(f) = "Bool" THEN ArgNamed(f) ELSE ArgValues(f) /= <<>>
ArgValue(f) ==
    IF Tag(f) = "Bool" THEN TRUE
    ELSE Parsed(Tag(f), ArgValues(f)[Len(ArgValues(f))])

\* C1: when load() returns Ok, a scalar flag that the arguments set holds the
\* argument's value, whatever the config files and the environment gave it;
\* a scalar flag that the environment set and the arguments did not holds the
\* environment's value, whatever the config files gave it.
C1_LastPhaseWinsForScalars ==
    ReturnedOk =>
        \A f \in ScalarNames :
            /\ ArgGiven(f) => flags[f].value.v = ArgValue(f)
            /\ (EnvGiven(f) /\ ~ArgGiven(f)) => flags[f].value.v = Parsed(Tag(f), EnvText(f))

\* A load that set one scalar flag from a file, the environment and the
\* arguments, with three different values, and another from file and
\* environment only
C1_Witness ==
    /\ ReturnedOk
    /\ \E f \in ScalarNames, i \in DOMAIN config_files :
          /\ FileSets(config_files[i], f) /\ EnvGiven(f) /\ ArgGiven(f)
          /\ FileValue(config_files[i], f) /= Parsed(Tag(f), EnvText(f))
          /\ ArgValue(f) /= Parsed(Tag(f), EnvText(f))
          /\ ArgValue(f) /= FileValue(config_files[i], f)
    /\ \E f \in ScalarNames, i \in DOMAIN config_files :
          /\ FileSets(config_files[i], f) /\ EnvGiven(f) /\ ~ArgGiven(f)
          /\ FileValue(config_files[i], f) /= Parsed(Tag(f), EnvText(f))

----------------------------------------------------------------------------
(* C2: occurrences of an array flag in one argument list *)

AllParse(tag, texts) == \A i \in DOMAIN texts : Parses(tag, texts[i])
ParsedAll(tag, texts) == [i \in DOMAIN texts |-> Parsed(tag, texts[i])]

\* C2: during and after phase 3, an array flag for which the arguments have
\* supplied the values v1..vk (k >= 1, each parsing to the element type)
\* holds exactly [v1, ..., vk]: the first occurrence replaced what the flag
\* held, the later ones appended.
C2_ArgOccurrencesReplaceThenAppend ==
    Running =>
        \A f \in ArrayNames :
            (ArgValues(f) /= <<>> /\ AllParse(Tag(f), ArgValues(f)))
                => flags[f].value.v = ParsedAll(Tag(f), ArgValues(f))

\* Two occurrences, one long and one short, of an array flag whose default
\* is not empty
C2_Witness ==
    /\ ReturnedOk
    /\ \E f \in ArrayNames :
          /\ flags[f].default_value.v /= <<>>
          /\ Len(ArgValues(f)) >= 2
          /\ \E i, j \in DOMAIN roles :
                roles[i] = [role |-> "long", name |-> f] /\ roles[j] = [role |-> "short"]

----------------------------------------------------------------------------
(* C3: an array flag set by its environment variable *)

\* Phase 2 has visited f and written it from a delimited variable
EnvWroteArray(f) ==
    /\ Running
    /\ f \in ArrayNames
    /\ flags[f].env_var_delimiter /= None
    /\ EnvGiven(f)
    /\ f \notin env_left

EnvItems(f) == split(EnvText(f), flags[f].env_var_delimiter[1])

RECURSIVE Join(_, _)
Join(pieces, d) ==
    IF Len(pieces) = 1 THEN pieces[1] ELSE pieces[1] \o d \o Join(Tail(pieces), d)

Contains(s, d) == \E i \in 1..(Len(s) - Len(d) + 1) : SubSeq(s, i, i + Len(d) - 1) = d

\* C3: on a freshly built registry, an array flag with a delimiter whose
\* variable is present, every piece of which parses, and for which the
\* arguments have supplied no value, holds exactly the pieces of the
\* variable's text between the delimiters, parsed, in order; for a string
\* array the pieces joined by the delimiter give the text back and no piece
\* holds the delimiter.
C3_EnvArrayIsTheSplitValue ==
    \A f \in ArrayNames :
        (fresh /\ EnvWroteArray(f) /\ AllParse(Tag(f), EnvItems(f)) /\ ArgValues(f) = <<>>)
            => /\ flags[f].value.v = ParsedAll(Tag(f), EnvItems(f))
               /\ Tag(f) = "StringArray" =>
                     /\ Join(flags[f].value.v, flags[f].env_var_delimiter[1]) = EnvText(f)
                     /\ \A i \in DOMAIN flags[f].value.v :
                           ~Contains(flags[f].value.v[i], flags[f].env_var_delimiter[1])

\* A fresh registry, an array flag with a default that a config file has
\* replaced, then its variable with two elements, and no argument for it
C3_Witness ==
    /\ ReturnedOk
    /\ fresh
    /\ \E f \in ArrayNames :
          /\ EnvWroteArray(f) /\ ArgValues(f) = <<>>
          /\ flags[f].default_value.v /= <<>>
          /\ \E i \in DOMAIN config_files :
                FileSets(config_files[i], f) /\ FileValue(config_files[i], f) /= <<>>
          /\ Len(flags[f].value.v) = 2

----------------------------------------------------------------------------
(* C4: an array flag set by environment and by arguments *)

\* C4: phase 3 starts with every touched marker cleared, and an array flag
\* that phase 2 wrote from its variable and for which the arguments have
\* supplied values holds exactly the argument values, in argument order.
C4_ArgsReplaceEnvArray ==
    /\ (pc = "args" /\ arg_idx = 0) => \A f \in Names : ~flags[f].is_set
    /\ \A f \in ArrayNames :
          (EnvWroteArray(f) /\ ArgValues(f) /= <<>> /\ AllParse(Tag(f), ArgValues(f)))
              => flags[f].value.v = ParsedAll(Tag(f), ArgValues(f))

\* The variable gave two elements, the arguments two others
C4_Witness ==
    /\ ReturnedOk
    /\ \E f \in ArrayNames :
          /\ EnvWroteArray(f) /\ AllParse(Tag(f), EnvItems(f)) /\ Len(EnvItems(f)) = 2
          /\ Len(ArgValues(f)) = 2
          /\ \A i \in 1..2, j \in 1..2 : EnvItems(f)[i] /= ArgValues(f)[j]

----------------------------------------------------------------------------
(* C5, C6: the same flag in several config files *)

\* Phase 1 is over and neither the environment nor the arguments read so far
\* reach flag f
OnlyFilesReached(f) ==
    /\ Running
    /\ pc /= "files"
    /\ ~EnvGiven(f)
    /\ ~ArgNamed(f)
    /\ ArgValues(f) = <<>>

TwoFilesSetArray(f) ==
    /\ f \in ArrayNames
    /\ Len(config_files) = 2
    /\ FileSets(config_files[1], f)
    /\ FileSets(config_files[2], f)
    /\ OnlyFilesReached(f)

\* C5 as stated: two config files that set the same array flag leave it with
\* the first file's elements followed by the second file's.
C5_FilesConcatenate ==
    \A f \in ArrayNames :
        TwoFilesSetArray(f)
            => flags[f].value.v = FileValue(config_files[1], f) \o FileValue(config_files[2], f)

\* C5 amended: two config files that set the same array flag leave it with
\* the second file's elements alone when the second file's array is not
\* empty; an empty array in the second file leaves the first file's elements.
C5_SecondFileReplaces ==
    \A f \in ArrayNames :
        TwoFilesSetArray(f)
            => /\ FileValue(config_files[2], f) /= <<>>
                    => flags[f].value.v = FileValue(config_files[2], f)
               /\ (FileValue(config_files[2], f) = <<>> /\ FileValue(config_files[1], f) /= <<>>)
                    => flags[f].value.v = FileValue(config_files[1], f)

\* Two files with different, non-empty arrays for the same flag
C5_Witness ==
    /\ ReturnedOk
    /\ \E f \in ArrayNames :
          /\ TwoFilesSetArray(f)
          /\ FileValue(config_files[1], f) /= <<>>
          /\ FileValue(config_files[2], f) /= <<>>
          /\ FileValue(config_files[1], f) /= FileValue(config_files[2], f)

\* C6: when two config files set the same flag and no file after the later
\* one has a property of that name, the flag holds the later file's value
\* alone, for a scalar flag and for an array flag given a non-empty array.
C6_LaterFileOverrides ==
    \A f \in Names :
        \A j, k \in DOMAIN config_files :
            ( /\ j < k
              /\ FileSets(config_files[j], f)
              /\ FileSets(config_files[k], f)
              /\ \A l \in DOMAIN config_files : l > k => ~FileMentions(config_files[l], f)
              /\ f \in ArrayNames => FileValue(config_files[k], f) /= <<>>
              /\ OnlyFilesReached(f) )
            => flags[f].value.v = FileValue(config_files[k], f)

\* Two files that give a scalar flag two values and an array flag two arrays
C6_Witness ==
    /\ ReturnedOk
    /\ Len(config_files) >= 2
    /\ \E f \in ScalarNames, g \in ArrayNames :
          /\ OnlyFilesReached(f) /\ OnlyFilesReached(g)
          /\ FileSets(config_files[1], f) /\ FileSets(config_files[2], f)
          /\ FileSets(config_files[1], g) /\ FileSets(config_files[2], g)
          /\ FileValue(config_files[1], f) /= FileValue(config_files[2], f)
          /\ FileValue(config_files[2], g) /= <<>>
          /\ \A i \in DOMAIN FileValue(config_files[1], g) :
                FileValue(config_files[1], g)[i] \notin Range(FileValue(config_files[2], g))

----------------------------------------------------------------------------
(* C7: a flag the later phases do not reach *)

\* A token of the argument list names f: it is f's long form, or it starts
\* with a single dash and holds f's shorthand
NamedByArgs(f) ==
    \E i \in DOMAIN args :
        \/ args[i] = Long(f)
        \/ /\ starts_with(args[i], <<"-">>)
           /\ ~starts_with(args[i], <<"-", "-">>)
           /\ flags[f].shorthand /= None
           /\ flags[f].shorthand[1] \in Range(SliceFrom(args[i], 1))

\* C7: for a flag that no argument token names, no step of phase 2 changes
\* its value when its environment variable is absent, and no step of the
\* marker reset or of phase 3 changes its value at all: it keeps what the
\* config files (or the environment) gave it.
C7_LaterPhasesLeaveTheFlag ==
    [][\A f \in Names :
          ~NamedByArgs(f) =>
              /\ (pc = "env" /\ ~EnvGiven(f)) => flags'[f].value = flags[f].value
              /\ pc \in {"reset", "args"} => flags'[f].value = flags[f].value]_vars

\* After a load with a config file, an environment and arguments: a scalar
\* and an array flag hold what the file gave them, another flag holds what
\* the environment gave it, and the arguments have changed a fourth
C7_Witness ==
    /\ ReturnedOk
    /\ roles /= <<>>
    /\ \E f \in ScalarNames, g \in ArrayNames, i \in DOMAIN config_files :
          /\ ~NamedByArgs(f) /\ ~EnvGiven(f) /\ FileSets(config_files[i], f)
          /\ flags[f].value.v = FileValue(config_files[i], f)
          /\ flags[f].value /= flags[f].default_value
          /\ ~NamedByArgs(g) /\ ~EnvGiven(g) /\ FileSets(config_files[i], g)
          /\ flags[g].value.v = FileValue(config_files[i], g)
          /\ flags[g].value /= flags[g].default_value
    /\ \E f \in ScalarNames :
          /\ ~NamedByArgs(f) /\ EnvGiven(f)
          /\ Parses(Tag(f), EnvText(f))
          /\ flags[f].value.v = Parsed(Tag(f), EnvText(f))
    /\ \E f \in Names : ArgValues(f) /= <<>>

----------------------------------------------------------------------------
(* C8: unknown flag tokens *)

\* The first character of a short-form token that is no registered shorthand
UnknownShorthands(arg) ==
    {k \in 2..Len(arg) : arg[k] \notin DOMAIN shorthand_names}
FirstUnknownShorthand(arg) ==
    arg[CHOOSE k \in UnknownShorthands(arg) : \A l \in UnknownShorthands(arg) : k <= l]

\* C8: a long-form token read in Scanning state whose name is not registered
\* ends load() with Err("Unknown flag: --name"); a short-form token read in
\* Scanning state that holds an unregistered character ends load() with
\* Err("Unknown flag: -c"), c being the first such character.  No token is
\* read after it and load() does not return Ok.
C8_UnknownFlagIsAFault ==
    \A i \in DOMAIN roles :
        /\ (roles[i].role = "long" /\ roles[i].name \notin DOMAIN flags)
              => /\ i = Len(roles)
                 /\ pc = "done"
                 /\ result = Err(UnknownFlag(args[i]))
        /\ (roles[i].role = "short" /\ UnknownShorthands(args[i]) /= {})
              => /\ i = Len(roles)
                 /\ pc = "done"
                 /\ result = Err(UnknownFlag(<<"-", FirstUnknownShorthand(args[i])>>))

\* An unknown long flag after a flag and its value
C8_Witness ==
    /\ pc = "done"
    /\ Len(roles) = 3
    /\ roles[2].role = "value"
    /\ result = Err(UnknownFlag(<<"-", "-", "n", "o", "p", "e">>))

\* An unknown shorthand in a cluster, after a registered one
C8_WitnessShort ==
    /\ pc = "done"
    /\ result = Err(UnknownFlag(<<"-", "x">>))
    /\ flags[debug].value.v = TRUE

----------------------------------------------------------------------------
(* C9: the terminator *)

\* C9: a token read after the terminator is appended to positionals as it
\* is, changes no flag, raises no fault and leaves the parser in
\* PositionalOnly; the terminator itself, read in Scanning state, enters
\* PositionalOnly and is not added to positionals.
C9_PositionalOnlyIsTerminal ==
    [][pc = "args" =>
          LET arg == args[arg_idx + 1]
          IN  /\ as_positionals =>
                    /\ as_positionals'
                    /\ positionals' = Append(positionals, arg)
                    /\ flags' = flags
                    /\ pc' = "done" => result' = Ok
                    /\ pc' = IF arg_idx + 1 = Len(args) THEN "done" ELSE "args"
              /\ (~as_positionals /\ need_value_for_name = <<>> /\ arg = <<"-", "-">>) =>
                    /\ as_positionals'
                    /\ positionals' = positionals
                    /\ flags' = flags]_vars

\* After the terminator the parser has read a second "--" and a token that
\* looks like a flag
C9_Witness ==
    /\ ReturnedOk
    /\ as_positionals
    /\ \E i, j, k \in DOMAIN roles :
          /\ i < j /\ i < k
          /\ roles[i].role = "terminator"
          /\ args[j] = <<"-", "-">>
          /\ starts_with(args[k], <<"-">>) /\ Len(args[k]) > 2
          /\ Len(positionals) = Len(positionals0) + Len(args) - i

----------------------------------------------------------------------------
(* C10: the positionals of a successful parse *)

\* A flag token after which the parser awaits a value: the long form of a
\* registered flag that is not a Bool, or a short-form token that holds the
\* shorthand of one
AwaitsValue(arg) ==
    IF starts_with(arg, <<"-", "-">>)
    THEN SliceFrom(arg, 2) \in {f \in Names : Tag(f) /= "Bool"}
    ELSE \E k \in 2..Len(arg) :
            /\ arg[k] \in DOMAIN shorthand_names
            /\ Tag(shorthand_names[arg[k]]) /= "Bool"

\* The tokens of a list that are neither a flag token, nor the value of one,
\* nor the terminator
RECURSIVE ExpectedPositionals(_, _, _)
ExpectedPositionals(tokens, awaiting, terminated) ==
    IF tokens = <<>> THEN <<>>
    ELSE LET t == Head(tokens)
             rest == Tail(tokens)
         IN  IF terminated THEN <<t>> \o ExpectedPositionals(rest, FALSE, TRUE)
             ELSE IF awaiting THEN ExpectedPositionals(rest, FALSE, FALSE)
             ELSE IF t = <<"-">> THEN <<t>> \o ExpectedPositionals(rest, FALSE, FALSE)
             ELSE IF t = <<"-", "-">> THEN ExpectedPositionals(rest, FALSE, TRUE)
             ELSE IF starts_with(t, <<"-">>)
                  THEN ExpectedPositionals(rest, AwaitsValue(t), FALSE)
             ELSE <<t>> \o ExpectedPositionals(rest, FALSE, FALSE)

\* C10: when load() returns Ok, positionals is what it was when load() was
\* called (empty on a new registry) followed by, in order, the tokens of the
\* argument list that start with no dash, the bare "-" tokens read in
\* Scanning state and every token after the terminator, leaving out the flag
\* tokens, the tokens consumed as values and the terminator.
C10_PositionalsAreTheUnconsumedTokens ==
    ReturnedOk => positionals = positionals0 \o ExpectedPositionals(args, FALSE, FALSE)

\* A flag with its value, then the terminator and a token after it
\* that looks like a flag
C10_Witness ==
    /\ ReturnedOk
    /\ \E i, j \in DOMAIN roles :
          /\ roles[i].role = "value" /\ roles[j].role = "terminator"
          /\ j < Len(args)
          /\ starts_with(args[j + 1], <<"-">>)
    /\ positionals /= positionals0

----------------------------------------------------------------------------
(* C11: the faults of phase 1 *)

\* What phase 1 finds fault with in a config file
FileFaulty(file) ==
    \/ ~file.exists
    \/ ~file.opens
    \/ ~parse_json(sample_flags.flags, file.json).ok

\* C11: while load() reads config files it has returned nothing; phases 2 and
\* 3 start only after every registered config file has been visited, the
\* faulty ones included; the Err load() returns is never one of parse_json's
\* but a parse fault of phase 2 or 3 or an unknown flag; and with an empty
\* environment and no arguments load() returns Ok whatever the files hold.
C11_FileFaultsAreNotReturned ==
    /\ pc = "files" => result = "none"
    /\ pc \in {"env", "reset", "args", "done"} => file_idx = Len(config_files)
    /\ (pc = "done" /\ result /= Ok /\ "err" \in DOMAIN result)
          => result.err.kind \in {"Failed to parse type", "Unknown flag: "}
    /\ (pc = "done" /\ env_vars = << >> /\ args = <<>>) => result = Ok
    /\ (pc = "done" /\ result = Ok) => (env_left = {} /\ arg_idx = Len(args))

\* A faulty first file, then a second file, the environment and the
\* arguments each set a flag, and load() returned Ok
C11_Witness ==
    /\ ReturnedOk
    /\ Len(config_files) = 2
    /\ FileFaulty(config_files[1])
    /\ \E f \in Names :
          FileSets(config_files[2], f) /\ flags[f].value.v = FileValue(config_files[2], f)
    /\ \E f \in ScalarNames :
          /\ EnvGiven(f) /\ Parses(Tag(f), EnvText(f))
          /\ flags[f].value.v = Parsed(Tag(f), EnvText(f))
    /\ \E f \in ScalarNames : ArgValues(f) /= <<>> /\ flags[f].value.v = ArgValue(f)
    /\ positionals /= positionals0

\* The file with an unknown property: the property before the unknown one is
\* set, the one after it is not, and load() went on to the arguments
C11_WitnessKinds ==
    /\ ReturnedOk
    /\ Len(config_files) = 2
    /\ config_files[1] = FileUnknownProperty
    /\ flags[debug].value.v = TRUE
    /\ flags[port].value.v = 3

----------------------------------------------------------------------------
(* C12: a parse fault of phase 2 *)

\* What phase 2 makes of the variable of f: nothing for an array flag with no
\* delimiter, the pieces for an array flag with one, the text for a scalar
EnvTexts(f) ==
    IF flags[f].default_value.tag \in ArrayTags
    THEN IF flags[f].env_var_delimiter = None THEN <<>> ELSE EnvItems(f)
    ELSE <<EnvText(f)>>

\* The variable of f is present and some text phase 2 takes from it does not
\* parse; the first such text
EnvFault(f) ==
    /\ env_vars /= << >>
    /\ EnvGiven(f)
    /\ ~AllParse(Tag(f), EnvTexts(f))
FirstBadText(f) ==
    LET bad == {i \in DOMAIN EnvTexts(f) : ~Parses(Tag(f), EnvTexts(f)[i])}
    IN  EnvTexts(f)[CHOOSE i \in bad : \A j \in bad : i <= j]

\* C12: in a load whose environment holds a value that does not parse to its
\* flag's type, phase 2 has visited no such flag while it runs; the load
\* never reaches the marker reset or phase 3; no argument token is read and
\* positionals is what it was at the call; and load() returns the Err of
\* set_value_parsed for such a flag and its first text that does not parse.
C12_EnvFaultEndsTheLoad ==
    (Running /\ env_vars /= << >> /\ \E f \in DOMAIN flags : EnvFault(f)) =>
        /\ pc \in {"files", "env", "done"}
        /\ pc = "env" => \A f \in DOMAIN flags : EnvFault(f) => f \in env_left
        /\ roles = <<>>
        /\ arg_idx = 0
        /\ positionals = positionals0
        /\ pc = "done" =>
              \E f \in DOMAIN flags :
                  /\ EnvFault(f)
                  /\ result = Err(ParseFailure(TypeNameOf(Tag(f)), flags[f], FirstBadText(f)))

\* A load with a config file, a variable that does not parse and arguments
\* that name a flag and hold a positional: it returned the Err, the flag the
\* arguments name holds what the file gave it and positionals is empty
C12_Witness ==
    /\ pc = "done"
    /\ "err" \in DOMAIN result
    /\ \E f \in DOMAIN flags : EnvFault(f)
    /\ \E i \in DOMAIN config_files, f \in ScalarNames :
          /\ FileSets(config_files[i], f)
          /\ NamedByArgs(f)
          /\ flags[f].value.v = FileValue(config_files[i], f)
    /\ \E i \in DOMAIN args : ~starts_with(args[i], <<"-">>)
    /\ positionals = <<>>

----------------------------------------------------------------------------
(* C13: a JSON array with an element of another type *)

\* The file has a property for array flag f that parse_json reaches, and its
\* value is an array with an element that does not coerce to f's element type
FileGivesMixedArray(file, f) ==
    /\ IsObjectFile(file)
    /\ \E k \in DOMAIN file.json.data.entries :
          LET e == file.json.data.entries[k]
          IN  /\ e[1] = f
              /\ e[2].t = "Array"
              /\ \E i \in DOMAIN e[2].a : ~ElementCoerces(Tag(f), e[2].a[i])
              /\ \A j \in 1..(k - 1) :
                    LET d == file.json.data.entries[j]
                    IN  d[1] \in Names /\ Coerces(sample_flags.flags[d[1]].default_value.tag, d[2])

\* C13 as stated: reading a config file that gives an array flag a JSON array
\* with an element that does not coerce to the element type leaves the flag's
\* array exactly as it was before the file was read.
C13_MixedArrayLeavesTheFlag ==
    [][pc = "files" =>
          \A f \in ArrayNames :
              FileGivesMixedArray(config_files[file_idx + 1], f)
                  => flags'[f].value = flags[f].value]_vars

\* What the code does with ["a", 1] and ["a", true] for a string array: the
\* flag holds "a" alone after the file
C13_PartialAssignment ==
    /\ pc = "done"
    /\ Len(config_files) = 1
    /\ FileGivesMixedArray(config_files[1], user)
    /\ flags[user].value.v = <<(<<"a">>)>>

----------------------------------------------------------------------------
(* C14: a property whose JSON type does not match a scalar flag *)

\* The file has a property for scalar flag f that parse_json reaches, and its
\* value has not the JSON type of f's variant
FileGivesMismatch(file, f) ==
    /\ IsObjectFile(file)
    /\ \E k \in DOMAIN file.json.data.entries :
          LET e == file.json.data.entries[k]
          IN  /\ e[1] = f
              /\ ~Coerces(Tag(f), e[2])
              /\ \A j \in 1..(k - 1) :
                    LET d == file.json.data.entries[j]
                    IN  d[1] \in Names /\ Coerces(sample_flags.flags[d[1]].default_value.tag, d[2])

\* C14 as stated: reading a config file with a property whose JSON type does
\* not match its scalar flag makes parse_json return a fault, which load()
\* does not return, and leaves the flag's value as it was before the file.
C14_ScalarMismatchIsALoggedFault ==
    [][pc = "files" =>
          \A f \in ScalarNames :
              FileGivesMismatch(config_files[file_idx + 1], f)
                  => /\ ~parse_json(flags, config_files[file_idx + 1].json).ok
                     /\ result' = "none"
                     /\ flags'[f].value = flags[f].value]_vars

\* A config file that gives a scalar flag a JSON array has been read and
\* parse_json found no fault in it
C14_ArrayForScalarIsSilent ==
    /\ pc = "done"
    /\ Len(config_files) = 1
    /\ \E f \in ScalarNames : FileGivesMismatch(config_files[1], f)
    /\ parse_json(flags, config_files[1].json).ok

\* What holds of the code: the flag's value is left as it was and load()
\* returns nothing because of the file; parse_json returns a fault unless the
\* JSON value is an array with no string and no number in it.
C14_ScalarMismatchLeavesTheFlag ==
    [][pc = "files" =>
          \A f \in ScalarNames :
              FileGivesMismatch(config_files[file_idx + 1], f)
                  => /\ result' = "none"
                     /\ flags'[f].value = flags[f].value]_vars

----------------------------------------------------------------------------
(* C15: the variable of an array flag with no delimiter *)

NoDelimiterArray(f) ==
    flags[f].default_value.tag \in ArrayTags /\ flags[f].env_var_delimiter = None

\* C15: no step of phase 2 changes an array flag that has no delimiter,
\* neither its value nor its touched marker, and the step that visits such a
\* flag, its variable being present, does not end load().
C15_NoDelimiterVariableIsSkipped ==
    [][pc = "env" =>
          \A f \in DOMAIN flags :
              NoDelimiterArray(f) =>
                  /\ flags'[f] = flags[f]
                  /\ (f \in env_left /\ f \notin env_left') =>
                        /\ pc' \in {"env", "reset"}
                        /\ result' = "none"]_vars

\* A load that returned Ok although the variable of ids holds a text that is
\* no number; ids holds what the config file gave it and another flag holds
\* what its variable gave it
C15_Witness ==
    /\ ReturnedOk
    /\ NoDelimiterArray(ids)
    /\ EnvGiven(ids)
    /\ ~Parses(Tag(ids), EnvText(ids))
    /\ config_files = <<FileB>>
    /\ flags[ids].value.v = FileValue(FileB, ids)
    /\ EnvGiven(host) /\ flags[host].value.v = EnvText(host)

----------------------------------------------------------------------------
(* C16: a flag keeps the variant of its default *)

\* The application's call handed a registered flag a value of another variant
CalledWithOtherVariant ==
    /\ call.op \in {"set_value", "append_values"}
    /\ call.value.tag /= flags[call.name].default_value.tag

\* C16: in every state, whatever set_value, append_values, the config
\* files, the environment and the arguments have written, the value of every
\* registered flag has the variant of its default; and a set_value or
\* append_values call with a value of another variant has panicked and left
\* the flag as it was.
C16_ValueKeepsTheVariant ==
    /\ \A f \in DOMAIN flags : flags[f].value.tag = flags[f].default_value.tag
    /\ CalledWithOtherVariant =>
          /\ pc = "panicked"
          /\ flags[call.name] = sample_flags.flags[call.name]

\* set_value gave a flag a value of its variant, and a load with a config
\* file, an environment and arguments then gave it another
C16_Witness ==
    /\ ReturnedOk
    /\ call.op = "set_value"
    /\ call.value.tag = flags[call.name].default_value.tag
    /\ flags[call.name].value /= call.value
    /\ flags[call.name].value /= flags[call.name].default_value
    /\ config_files /= <<>> /\ env_vars /= << >> /\ args /= <<>>

\* set_value and append_values have each been called with a value of another
\* variant
C16_WitnessRejected ==
    /\ CalledWithOtherVariant
    /\ call.op = "append_values"
    /\ call.value.tag \in ArrayTags
    /\ flags[call.name].default_value.tag \in ArrayTags

----------------------------------------------------------------------------
(* C17: Flags::add and duplicates *)

\* The application built a descriptor the constructors accept and handed it
\* to add
AddCalled ==
    /\ call.op = "add"
    /\ NameIsValid(call.name)
    /\ call.shorthand /= None => ShorthandIsValid(call.shorthand[1])

\* Its name, or its shorthand, was registered before the call
AddedDuplicate ==
    \/ call.name \in Names
    \/ call.shorthand /= None /\ call.shorthand[1] \in DOMAIN sample_flags.shorthand_names

\* C17: an add of a descriptor whose name or whose shorthand is already
\* registered has panicked in add and left the name map and the shorthand
\* index exactly as they were; an add of a descriptor with a new name and a
\* new (or no) shorthand has registered both.
C17_AddRejectsDuplicates ==
    AddCalled =>
        IF AddedDuplicate
        THEN /\ pc = "panicked"
             /\ result = Panic("Flags::add")
             /\ DOMAIN flags = Names
             /\ \A f \in Names : flags[f] = sample_flags.flags[f]
             /\ shorthand_names = sample_flags.shorthand_names
        ELSE /\ pc /= "panicked"
             /\ DOMAIN flags = Names \cup {call.name}
             /\ flags[call.name].default_value = call.default_value
             /\ call.shorthand /= None =>
                    /\ call.shorthand[1] \in DOMAIN shorthand_names
                    /\ shorthand_names[call.shorthand[1]] = call.name

\* add was given a registered name with a shorthand that is not registered
C17_Witness ==
    /\ AddCalled
    /\ pc = "panicked"
    /\ call.name \in Names
    /\ call.shorthand /= None
    /\ call.shorthand[1] \notin DOMAIN sample_flags.shorthand_names

\* add was given a new name with a registered shorthand
C17_WitnessShorthand ==
    /\ AddCalled
    /\ pc = "panicked"
    /\ call.name \notin Names
    /\ call.shorthand /= None
    /\ call.shorthand[1] \in DOMAIN sample_flags.shorthand_names

----------------------------------------------------------------------------
(* C18: a delimiter on a flag that is no array *)

\* C18 as stated: a descriptor built with an env-var delimiter and a default
\* that is no array is a construction fault, so the program has panicked and
\* no registered flag has a delimiter and a value that is no array.
C18_DelimiterNeedsAnArray ==
    /\ (AddCalled /\ call.env_var_delimiter /= None /\ call.default_value.tag \in ScalarTags)
          => pc = "panicked"
    /\ \A f \in DOMAIN flags :
          flags[f].env_var_delimiter /= None => IsArray(flags[f].value)

\* A Bool flag built with a delimiter has been registered, and load() has
\* run on the registry and returned Ok
C18_ScalarWithDelimiter ==
    /\ ReturnedOk
    /\ AddCalled
    /\ call.default_value.tag = "Bool"
    /\ call.name \in DOMAIN flags
    /\ flags[call.name].env_var_delimiter = Some(<<",">>)

----------------------------------------------------------------------------
(* C19: the identifiers of a descriptor *)

\* The name is not empty and holds only lowercase letters, digits and dashes
NameWellFormed(name) ==
    /\ Len(name) >= 1
    /\ Range(name) \subseteq Range(LowerCase) \cup Range(Digits) \cup {"-"}

\* The character is an ASCII letter or digit
ShorthandWellFormed(c) == c \in Range(LowerCase) \cup Range(UpperCase) \cup Range(Digits)

\* C19: the application's descriptor has panicked in Flag::new exactly when
\* its name is empty or holds a character that is no lowercase letter, digit
\* or dash; with a name Flag::new accepts, it has panicked in Flag::shorthand
\* exactly when a shorthand was asked for that is no ASCII letter or digit.
C19_ConstructorsValidate ==
    call.op = "add" =>
        /\ (pc = "panicked" /\ result = Panic("Flag::new")) <=> ~NameWellFormed(call.name)
        /\ NameWellFormed(call.name) =>
              ( (pc = "panicked" /\ result = Panic("Flag::shorthand"))
                  <=> (call.shorthand /= None /\ ~ShorthandWellFormed(call.shorthand[1])) )

\* Flag::new was given a name with an uppercase letter and a space
C19_Witness ==
    /\ call.op = "add"
    /\ pc = "panicked"
    /\ result = Panic("Flag::new")
    /\ {"A", " "} \subseteq Range(call.name)

\* Flag::shorthand was given '$' on a descriptor with a name of letters, a
\* dash and a digit
C19_WitnessShorthand ==
    /\ call.op = "add"
    /\ pc = "panicked"
    /\ result = Panic("Flag::shorthand")
    /\ call.shorthand = Some("$")
    /\ call.name = NewName

\* A descriptor with a name of lowercase letters, a dash and a digit and an
\* uppercase shorthand was built and registered
C19_WitnessAccepted ==
    /\ call.op = "add"
    /\ pc = "idle"
    /\ call.name = NewName
    /\ call.shorthand = Some("Z")
    /\ shorthand_names["Z"] = call.name

----------------------------------------------------------------------------
(* C20: the name of a flag's environment variable *)

\* The name with every lowercase letter replaced by its uppercase letter and
\* every dash by an underscore
ExpectedKey(name) ==
    [i \in DOMAIN name |->
        CASE name[i] = "-" -> "_"
          [] \E k \in DOMAIN LowerCase : LowerCase[k] = name[i] ->
                UpperCase[CHOOSE k \in DOMAIN LowerCase : LowerCase[k] = name[i]]
          [] OTHER -> name[i]]

\* The expected keys of the registry the application builds
SampleKeys == [f \in Names |-> ExpectedKey(f)]
KeyFor(f) == IF f \in Names THEN SampleKeys[f] ELSE ExpectedKey(f)

\* C20: once the registry is built (names never change afterwards),
\* get_env_var_name of every registered flag is its name uppercased with
\* underscores for dashes (MAX_SIZE for max-size, MY_BOOL for my-bool);
\* phase 2 visits only flags whose variable is in the mapping under exactly
\* that key; and when phase 2 is over, on a new registry with no config
\* file, a scalar flag holds the value found under that key, and a flag with
\* no entry under that key holds its default whatever other keys there are.
C20_EnvVarNameIsUppercasedName ==
    /\ (pc = "idle" /\ loads = 0) =>
          /\ \A f \in DOMAIN flags : get_env_var_name(flags[f]) = ExpectedKey(f)
          /\ get_env_var_name(flags[max_size]) = <<"M","A","X","_","S","I","Z","E">>
          /\ get_env_var_name(NewFlag(<<"m","y","-","b","o","o","l">>, FlagValue("Bool", FALSE)))
                = <<"M","Y","_","B","O","O","L">>
    /\ pc = "env" => \A f \in env_left : KeyFor(f) \in DOMAIN env_vars
    /\ (pc = "reset" /\ config_files = <<>> /\ fresh /\ call = NoCall) =>
          \A f \in Names :
              IF KeyFor(f) \in DOMAIN env_vars
              THEN f \in ScalarNames =>
                      flags[f].value.v = Parsed(Tag(f), env_vars[KeyFor(f)])
              ELSE flags[f].value = flags[f].default_value

\* Phase 2 is over in an environment with MAX_SIZE and with keys that differ
\* from MAX_SIZE, PORT and TIMEOUT_SEC in case or in the dash: max-size holds
\* the value of MAX_SIZE, port and timeout-sec hold their defaults
C20_Witness ==
    /\ pc = "reset"
    /\ config_files = <<>>
    /\ env_vars = EnvNearKeys
    /\ flags[max_size].value.v = 6
    /\ flags[port].value = flags[port].default_value
    /\ flags[timeout_sec].value = flags[timeout_sec].default_value

----------------------------------------------------------------------------
(* C21: text of a scalar value, parsed back *)

\* C21: when set_value_parsed is given the text to_string writes for a value
\* v of the flag's scalar variant, it returns Ok and the flag holds exactly
\* v, whatever the flag held before; a Bool flag returns Ok for the texts
\* "true" and "false" and Err for every other text.
C21_ScalarRoundTrip ==
    call.op = "set_value_parsed" =>
        LET tag == Tag(call.name)
        IN  /\ tag \in ScalarTags =>
                  \A v \in ScalarValues(tag) :
                      call.text = to_string(FlagValue(tag, v))
                          => /\ call.res = Ok
                             /\ flags[call.name].value = FlagValue(tag, v)
            /\ tag = "Bool" =>
                  (call.res = Ok <=> call.text \in {<<"t","r","u","e">>, <<"f","a","l","s","e">>})

\* A Float64 flag that held another value is given the text of -0.5
C21_Witness ==
    /\ call.op = "set_value_parsed"
    /\ call.n = 2
    /\ Tag(call.name) = "Float64"
    /\ call.text = <<"-", "0", ".", "5">>
    /\ call.text = to_string(flags[call.name].value)
    /\ flags[call.name].value.v = [m |-> 0 - 5, e |-> 1]

\* A Bool flag set to true is given "False" and faults, keeping true
C21_WitnessFault ==
    /\ call.op = "set_value_parsed"
    /\ call.n = 2
    /\ Tag(call.name) = "Bool"
    /\ call.text = <<"F","a","l","s","e">>
    /\ call.res /= Ok
    /\ flags[call.name].value.v = TRUE

----------------------------------------------------------------------------
(* C22: the touched markers at the start of each phase *)

\* load() stands at the start of phase 2 (no flag visited yet), of phase 1
\* (no config file read yet) and of phase 3 (no token read yet)
StartOfPhase2 ==
    /\ pc \in {"env", "reset"}
    /\ file_idx = Len(config_files)
    /\ env_left = EnvPresent(flags, env_vars)
StartOfPhase1 == file_idx = 0 /\ (pc = "files" \/ StartOfPhase2)
StartOfPhase3 == pc = "args" /\ arg_idx = 0

NoMarkerSet == \A f \in DOMAIN flags : ~flags[f].is_set

\* C22: at the start of phase 1, of phase 2 and of phase 3 of every load()
\* no flag's touched marker is set, so that an array flag which phase 2 has
\* written from its variable, every piece of which parses, holds exactly
\* the pieces of the variable (the first write of the phase replaced).
C22_MarkersClearAtEveryPhase ==
    /\ (StartOfPhase1 \/ StartOfPhase2 \/ StartOfPhase3) => NoMarkerSet
    /\ \A f \in ArrayNames :
          (pc \in {"env", "reset"} /\ EnvWroteArray(f) /\ AllParse(Tag(f), EnvItems(f)))
              => flags[f].value.v = ParsedAll(Tag(f), EnvItems(f))

\* A second load(): the first one gave an array flag a value by an argument,
\* and the variable's pieces are appended to what the flag held
C22_EnvAppendsToEarlierLoad ==
    /\ loads = 2
    /\ pc = "reset"
    /\ \E f \in ArrayNames :
          /\ EnvWroteArray(f) /\ AllParse(Tag(f), EnvItems(f))
          /\ flags[f].is_set
          /\ Len(flags[f].value.v) > Len(EnvItems(f))
          /\ SubSeq(flags[f].value.v, Len(flags[f].value.v) - Len(EnvItems(f)) + 1,
                    Len(flags[f].value.v)) = ParsedAll(Tag(f), EnvItems(f))

\* What does hold: on a registry that no append_values and no earlier load()
\* has acted on, no marker is set at the start of phase 1 and of phase 2, and
\* none is set at the start of phase 3 of any load()
C22_MarkersClearOnFreshRegistry ==
    /\ (fresh /\ (StartOfPhase1 \/ StartOfPhase2)) => NoMarkerSet
    /\ StartOfPhase3 => NoMarkerSet

----------------------------------------------------------------------------
(* C23: a JSON array written to an array flag in phase 1 *)

\* The config file read by this step is the first of this load() with a
\* property named f, and it sets f: an array all of whose elements have the
\* shape of f's element type
FirstFileArrayWrite(f) ==
    /\ pc = "files"
    /\ f \in ArrayNames
    /\ FileSets(config_files[file_idx + 1], f)
    /\ \A j \in 1..file_idx : ~FileMentions(config_files[j], f)

\* C23: the first config file of a load() that gives an array flag a JSON
\* array of matching elements leaves the flag holding exactly the elements
\* of that array, in order, for an array of any length, the empty one
\* included.
C23_JsonArrayReplaces ==
    [][\A f \in DOMAIN flags :
          FirstFileArrayWrite(f)
              => flags'[f].value.v = FileValue(config_files[file_idx + 1], f)]_vars

\* Phase 1 is over: the only config file gave an array flag the empty
\* array, and the flag still holds the elements of its default
C23_EmptyArrayKeepsTheElements ==
    /\ Running
    /\ pc /= "files"
    /\ Len(config_files) = 1
    /\ \E f \in ArrayNames :
          /\ FileSets(config_files[1], f)
          /\ FileValue(config_files[1], f) = <<>>
          /\ flags[f].value.v = flags[f].default_value.v
          /\ flags[f].value.v /= <<>>

\* What does hold: every config file that gives an array flag a JSON array
\* of one or more matching elements leaves the flag holding exactly those
\* elements, and one that gives it the empty array leaves the flag as it was
C23_NonEmptyJsonArrayReplaces ==
    [][\A f \in DOMAIN flags :
          (pc = "files" /\ f \in ArrayNames /\ FileSets(config_files[file_idx + 1], f))
              => flags'[f].value.v =
                     IF FileValue(config_files[file_idx + 1], f) = <<>>
                     THEN flags[f].value.v
                     ELSE FileValue(config_files[file_idx + 1], f)]_vars

----------------------------------------------------------------------------
(* C24: a short-form cluster with shorthands that need a value *)

\* The token the parser is about to read, and whether it reads it in
\* Scanning state as a short-form token
NextArg == args[arg_idx + 1]
ReadsShortForm ==
    /\ pc = "args"
    /\ RoleOf(ParserState(flags, positionals, need_value_for_name, as_positionals),
              NextArg).role = "short"

\* The places in a short-form token of the registered shorthands of flags
\* that are not Bool
ValueShorthands(arg) ==
    {k \in 2..Len(arg) : /\ arg[k] \in DOMAIN shorthand_names
                         /\ flags[shorthand_names[arg[k]]].value.tag /= "Bool"}
FirstOf(S) == CHOOSE k \in S : \A l \in S : k <= l
LastOf(S) == CHOOSE k \in S : \A l \in S : k >= l

\* C24: after a short-form cluster of registered shorthands, one or more of
\* them of flags that are not Bool, the parser awaits a value for the flag of
\* the first such shorthand of the cluster.
C24_FirstValueShorthandIsAwaited ==
    [][(ReadsShortForm /\ UnknownShorthands(NextArg) = {} /\ ValueShorthands(NextArg) /= {})
          => need_value_for_name' =
                 shorthand_names[NextArg[FirstOf(ValueShorthands(NextArg))]]]_vars

\* The cluster -hp was followed by 7: port, the flag of the last shorthand,
\* holds 7 and host, the flag of the first, holds its default
C24_LastShorthandGotTheValue ==
    /\ pc \in {"args", "done"}
    /\ Len(roles) >= 2
    /\ args[1] = <<"-", "h", "p">>
    /\ roles[1] = [role |-> "short"]
    /\ roles[2] = [role |-> "value", name |-> port]
    /\ flags[port].value.v = Parsed("Int64", args[2])
    /\ flags[port].value /= flags[port].default_value
    /\ flags[host].value = flags[host].default_value

\* What does hold: after such a cluster the parser awaits a value for the
\* flag of the last shorthand of the cluster that is not Bool
C24_LastValueShorthandIsAwaited ==
    [][(ReadsShortForm /\ UnknownShorthands(NextArg) = {} /\ ValueShorthands(NextArg) /= {})
          => need_value_for_name' =
                 shorthand_names[NextArg[LastOf(ValueShorthands(NextArg))]]]_vars

----------------------------------------------------------------------------
(* C25: the token read while a value is awaited *)

\* The array of a flag after one more element: the element alone when the
\* marker is clear, the array with the element appended when it is set
ResetOrAppend(flag, x) == IF flag.is_set THEN Append(flag.value.v, x) ELSE <<x>>

\* C25: a token read while the parser awaits a value for flag f is taken as
\* f's value whatever its form: no positional is added, the parser does not
\* enter PositionalOnly and no other flag changes.  When the text parses to
\* f's type, a scalar f holds the parsed value, an array f holds the value
\* alone (marker clear) or its elements followed by the value (marker set),
\* and the parser awaits nothing for the next token; when it does not parse,
\* load() returns the parse fault and f is unchanged.
C25_AwaitedValueIsConsumed ==
    [][(pc = "args" /\ need_value_for_name /= <<>>) =>
          LET f == need_value_for_name
              tag == Tag(f)
          IN  /\ positionals' = positionals
              /\ ~as_positionals'
              /\ \A g \in DOMAIN flags \ {f} : flags'[g] = flags[g]
              /\ roles'[Len(roles')] = [role |-> "value", name |-> f]
              /\ IF Parses(tag, NextArg)
                 THEN /\ need_value_for_name' = <<>>
                      /\ flags'[f].value.v =
                            IF tag \in ScalarTags THEN Parsed(tag, NextArg)
                            ELSE ResetOrAppend(flags[f], Parsed(tag, NextArg))
                      /\ pc' = IF arg_idx + 1 = Len(args) THEN "done" ELSE "args"
                      /\ pc' = "done" => result' = Ok
                 ELSE /\ flags' = flags
                      /\ pc' = "done"
                      /\ result' = Err(ParseFailure(TypeNameOf(tag), flags[f], NextArg))]_vars

\* A String flag was given "--" and later "-" as its value, and the token
\* between was read in Scanning state, as a positional
C25_Witness ==
    /\ ReturnedOk
    /\ ~as_positionals
    /\ \E i, j \in DOMAIN roles :
          /\ i + 1 < j
          /\ roles[i].role = "value" /\ args[i] = <<"-", "-">>
          /\ roles[i + 1].role = "positional"
          /\ roles[j].role = "value" /\ roles[j].name = roles[i].name
          /\ args[j] = <<"-">>
          /\ flags[roles[j].name].value.v = <<"-">>
    /\ Len(positionals) = Len(positionals0) + 1

\* A string array was given three values that have the form of flags and of
\* the bare dash, and holds them in order
C25_WitnessArray ==
    /\ ReturnedOk
    /\ flags[user].value.v = << Short("U"), Long(<<"n","o","p","e">>), <<"-">> >>
    /\ positionals = positionals0

----------------------------------------------------------------------------
(* C26: the long form of a registered flag *)

\* The parser is about to read, in Scanning state, the long form of a
\* registered flag
ReadsLongFormOf(f) ==
    /\ pc = "args"
    /\ RoleOf(ParserState(flags, positionals, need_value_for_name, as_positionals),
              NextArg) = [role |-> "long", name |-> f]
    /\ f \in DOMAIN flags

\* C26: the long form of a registered Bool flag, read in Scanning state,
\* sets that flag to true and nothing else, raises no fault and leaves the
\* parser awaiting nothing, so that the next token is read in Scanning
\* state; the long form of a registered flag of another type changes no
\* flag and no positional and leaves the parser awaiting a value for it.
C26_LongFormOfARegisteredFlag ==
    [][\A f \in DOMAIN flags :
          ReadsLongFormOf(f) =>
              /\ positionals' = positionals
              /\ ~as_positionals'
              /\ pc' = IF arg_idx + 1 = Len(args) THEN "done" ELSE "args"
              /\ pc' = "done" => result' = Ok
              /\ IF flags[f].value.tag = "Bool"
                 THEN /\ flags' = [flags EXCEPT ![f].value = FlagValue("Bool", TRUE)]
                      /\ need_value_for_name' = <<>>
                 ELSE /\ flags' = flags
                      /\ need_value_for_name' = f]_vars

\* --timeout was followed by a token that became a positional, and later
\* --port by its value: timeout is true, port holds the value
C26_Witness ==
    /\ ReturnedOk
    /\ \E i, j \in DOMAIN roles :
          /\ roles[i] = [role |-> "long", name |-> timeout]
          /\ roles[i + 1].role = "positional"
          /\ args[i + 1] \in Range(positionals)
          /\ roles[j] = [role |-> "long", name |-> port]
          /\ roles[j + 1] = [role |-> "value", name |-> port]
    /\ flags[timeout].value.v = TRUE
    /\ flags[timeout].default_value.v = FALSE
    /\ flags[port].value.v = 3

----------------------------------------------------------------------------
(* C27: the argument list ends while a value is awaited *)

\* The parser is about to read the last token, in Scanning state, and the
\* token is the long form of a registered flag that is not Bool or a cluster
\* of registered shorthands with one of a flag that is not Bool
LastTokenAwaitsValue ==
    /\ pc = "args"
    /\ arg_idx + 1 = Len(args)
    /\ \/ \E f \in DOMAIN flags : ReadsLongFormOf(f) /\ flags[f].value.tag /= "Bool"
       \/ /\ ReadsShortForm
          /\ UnknownShorthands(NextArg) = {}
          /\ ValueShorthands(NextArg) /= {}

\* C27: when the last token of the argument list leaves the parser awaiting
\* a value for a flag, load() returns Ok, the awaited flag holds what it
\* held before the token and no positional is added.
C27_MissingValueIsIgnored ==
    [][LastTokenAwaitsValue =>
          /\ pc' = "done"
          /\ result' = Ok
          /\ need_value_for_name' \in DOMAIN flags
          /\ flags'[need_value_for_name'].value = flags[need_value_for_name'].value
          /\ positionals' = positionals]_vars

\* load() has returned Ok for the argument list --port: a value is still
\* awaited for port, which holds its default
C27_Witness ==
    /\ ReturnedOk
    /\ args = <<Long(port)>>
    /\ need_value_for_name = port
    /\ flags[port].value = flags[port].default_value
    /\ positionals = positionals0

\* The same after a cluster that ends the list: its Bool flag is true, the
\* value flag holds its default
C27_WitnessCluster ==
    /\ ReturnedOk
    /\ Len(args) >= 2
    /\ roles[Len(args)] = [role |-> "short"]
    /\ need_value_for_name /= <<>>
    /\ flags[need_value_for_name].value = flags[need_value_for_name].default_value

----------------------------------------------------------------------------
(* C28: the shorthand index *)

\* Every entry of the shorthand index names a registered descriptor with
\* that shorthand, and no two registered descriptors have the same shorthand
IndexWellFormed ==
    /\ \A c \in DOMAIN shorthand_names :
          /\ shorthand_names[c] \in DOMAIN flags
          /\ flags[shorthand_names[c]].shorthand = Some(c)
    /\ \A f, g \in DOMAIN flags :
          (f /= g /\ flags[f].shorthand /= None) => flags[f].shorthand /= flags[g].shorthand

\* C28: every add, accepted or rejected, leaves the shorthand index well
\* formed, and leaves every descriptor and every index entry that was there
\* before the call in place and as it was.
C28_ShorthandIndexIsWellFormed ==
    [][/\ IndexWellFormed'
       /\ \A f \in DOMAIN flags : f \in DOMAIN flags' /\ flags'[f] = flags[f]
       /\ \A c \in DOMAIN shorthand_names :
             c \in DOMAIN shorthand_names' /\ shorthand_names'[c] = shorthand_names[c]]_vars

\* Three adds on a new registry, one of them rejected: two descriptors with
\* different shorthands are registered and indexed
C28_Witness ==
    /\ call.op = "add"
    /\ call.n = 3
    /\ call.rejected = 1
    /\ Cardinality(DOMAIN flags) = 2
    /\ DOMAIN shorthand_names = {"x", "Y"}
    /\ shorthand_names["x"] /= shorthand_names["Y"]

\* An add was rejected for its shorthand: the name is new, the shorthand is
\* another descriptor's
C28_WitnessShorthand ==
    /\ call.op = "add"
    /\ call.panic
    /\ call.name \notin DOMAIN flags
    /\ call.shorthand /= None
    /\ call.shorthand[1] \in DOMAIN shorthand_names

----------------------------------------------------------------------------
(* C29: load() does not panic *)

\* What the assertions of parse_args and of append_values rest on: an
\* awaited name is registered, every entry of the shorthand index names a
\* registered flag, and every flag's value has the variant of its default
AssertionsHold ==
    /\ need_value_for_name /= <<>> => need_value_for_name \in DOMAIN flags
    /\ \A c \in DOMAIN shorthand_names : shorthand_names[c] \in DOMAIN flags
    /\ \A f \in DOMAIN flags : flags[f].value.tag = flags[f].default_value.tag

\* C29: no step of load() panics: the program has panicked only in a call
\* the application made before any load(), a load() that has returned has
\* returned Ok or an Err, and in every state of a load() what the internal
\* assertions rest on holds.
C29_LoadNeverPanics ==
    /\ pc = "panicked" => (loads = 0 /\ call /= NoCall)
    /\ pc = "done" => (result = Ok \/ (~result.ok /\ DOMAIN result = {"ok", "err"}))
    /\ Running => AssertionsHold

\* load() has returned the parse fault of a value token, after a flag token
\* that made the parser await a value
C29_Witness ==
    /\ pc = "done"
    /\ ~result.ok
    /\ result.err.kind = "Failed to parse type"
    /\ Len(roles) >= 2

\* load() has returned Ok on a registry the application added a flag to,
\* after values for array flags and a short-form token
C29_WitnessAdded ==
    /\ ReturnedOk
    /\ call.op = "add"
    /\ call.name \in DOMAIN flags
    /\ \E i \in DOMAIN roles : roles[i].role = "short"
    /\ \E f \in ArrayNames : Len(ArgValues(f)) >= 1

----------------------------------------------------------------------------
(* C30: positionals over several loads *)

IsPrefix(p, q) == Len(p) <= Len(q) /\ SubSeq(q, 1, Len(p)) = p

\* C30: no step of the program removes or reorders a positional: the list
\* before a step is a prefix of the list after it, and when a load()
\* returns, Ok or Err, the list it was called with is a prefix of the list
\* it leaves.
C30_PositionalsOnlyGrow ==
    [][/\ IsPrefix(positionals, positionals')
       /\ pc' = "done" => IsPrefix(positionals0', positionals')]_vars

\* A second load() has returned Ok: the positionals of the first load are
\* followed by those of the second
C30_Witness ==
    /\ ReturnedOk
    /\ loads = 2
    /\ positionals0 /= <<>>
    /\ Len(positionals) > Len(positionals0)
    /\ IsPrefix(positionals0, positionals)
    /\ positionals[Len(positionals)] \in Range(args)

\* A load() has returned Err after it had added a positional
C30_WitnessErr ==
    /\ pc = "done"
    /\ ~result.ok
    /\ Len(positionals) > Len(positionals0)

----------------------------------------------------------------------------
(* C31: a successful load does not depend on the orders of visiting *)

\* The load() that has returned is the first call on the registry as built
FirstLoadAsBuilt == loads = 1 /\ fresh /\ call = NoCall

\* What load() makes of its inputs when every object is visited as listed
LoadAsListed ==
    load(sample_flags.flags, shorthand_names, <<>>, config_files, env_vars, args)

SameAsListed ==
    /\ LoadAsListed.res = Ok
    /\ flags = LoadAsListed.flags
    /\ positionals = LoadAsListed.positionals

C31_Phase2OrderIsIrrelevant ==
    (ReturnedOk /\ FirstLoadAsBuilt) => SameAsListed

\* C31, for config files parse_json finds no fault with: the outcome of a
\* successful load is the same for every order of the keys and of the flags
C31_FaultFreeFilesInAnyOrder ==
    (/\ ReturnedOk
     /\ FirstLoadAsBuilt
     /\ \A i \in 1..Len(config_files) :
            config_files[i] \in {FileC, FileEmptyArrays})
    => SameAsListed

\* C31: a successful load of two fault-free files, an environment and
\* arguments, every order of visiting open
C31_FaultFreeWitness ==
    /\ ReturnedOk
    /\ FirstLoadAsBuilt
    /\ config_files = <<FileC, FileEmptyArrays>>
    /\ env_vars = EnvA
    /\ args /= <<>>
    /\ SameAsListed

----------------------------------------------------------------------------
(* C32: a fault does not roll back *)

\* The step on which phase 3 or phase 2 returns its Err to load()
ArgFaultStep == pc = "args" /\ pc' = "done" /\ ~result'.ok
EnvFaultStep == pc = "env" /\ pc' = "done"

\* The Bool flags whose shorthand stands in the short-form token about to be
\* read, ahead of its first unregistered character
BoolsBeforeTheFault ==
    IF ReadsShortForm /\ UnknownShorthands(NextArg) /= {}
    THEN {shorthand_names[NextArg[k]] :
             k \in {i \in 2..Len(NextArg) :
                       /\ \A u \in UnknownShorthands(NextArg) : i < u
                       /\ Tag(shorthand_names[NextArg[i]]) = "Bool"}}
    ELSE {}

\* The place of the first text phase 2 takes from the variable of f that does
\* not parse, and the elements the texts before it stand for
FirstBadIndex(f) ==
    LET bad == {i \in DOMAIN EnvTexts(f) : ~Parses(Tag(f), EnvTexts(f)[i])}
    IN  CHOOSE i \in bad : \A j \in bad : i <= j
WrittenBefore(f) == ParsedAll(Tag(f), SubSeq(EnvTexts(f), 1, FirstBadIndex(f) - 1))

\* C32: the step on which an argument token makes load() return Err leaves
\* positionals and every flag as the phases and tokens before it wrote them,
\* but for the Bool flags that the earlier characters of the same short
\* cluster set to true; the step on which an environment value makes load()
\* return Err leaves every other flag and positionals alone and has written
\* to the array of a delimited flag the elements ahead of the first one that
\* does not parse (alone when the marker was clear, appended when it was
\* set); and the registry stays so when load() has returned the Err.
C32_FaultKeepsTheWrites ==
    [][/\ ArgFaultStep =>
            /\ positionals' = positionals
            /\ \A f \in DOMAIN flags :
                  flags'[f] = IF f \in BoolsBeforeTheFault
                              THEN [flags[f] EXCEPT !.value = FlagValue("Bool", TRUE)]
                              ELSE flags[f]
       /\ EnvFaultStep =>
            /\ positionals' = positionals
            /\ \E f \in env_left \ env_left' :
                  /\ EnvFault(f)
                  /\ \A g \in DOMAIN flags \ {f} : flags'[g] = flags[g]
                  /\ IF FirstBadIndex(f) = 1 THEN flags'[f] = flags[f]
                     ELSE /\ flags'[f].is_set
                          /\ flags'[f].value.v =
                                (IF flags[f].is_set THEN flags[f].value.v ELSE <<>>)
                                \o WrittenBefore(f)
       /\ (pc = "done" /\ ~result.ok) =>
            /\ flags' = flags
            /\ positionals' = positionals]_vars

\* C32: load() has returned the Err of an unknown shorthand in the fourth
\* token; the flags hold what the config file, the environment and the first
\* two tokens wrote, the positional of the third token is kept, and the two
\* Bool flags named in the cluster ahead of the unknown character are true
C32_Witness ==
    /\ pc = "done"
    /\ result = Err(UnknownFlag(<<"-", "x">>))
    /\ config_files = <<FileB>>
    /\ env_vars = EnvB
    /\ Len(roles) = 4
    /\ flags[host].value.v = <<"b">>
    /\ flags[max_size].value.v = 6
    /\ flags[port].value.v = 3
    /\ positionals = << <<"a">> >>
    /\ flags[timeout].value.v = TRUE
    /\ flags[debug].value.v = TRUE

\* C32: load() has returned the Err of a value token that does not parse,
\* and the positional and the flag value of the tokens before it are kept
C32_WitnessValue ==
    /\ pc = "done"
    /\ ~result.ok
    /\ Len(roles) = 5
    /\ roles[5] = [role |-> "value", name |-> max_size]
    /\ positionals = << <<"a">> >>
    /\ flags[port].value.v = 3
    /\ flags[max_size].value.v = 6

\* C32: load() has returned the Err of the second element of a delimited
\* environment value, and the array holds the first element
C32_WitnessEnv ==
    /\ pc = "done"
    /\ EnvFault(udp_port)
    /\ FirstBadIndex(udp_port) = 2
    /\ result = Err(ParseFailure("i64", flags[udp_port], <<"x">>))
    /\ flags[udp_port].value.v = <<6>>

----------------------------------------------------------------------------
(* C33: usage::generate terminates *)

max_desc_width == usage.width - Len(indentation)

\* The length of the run of chars that are no space starting at place l
\* (from 0) of the description being wrapped
RECURSIVE WordLength(_, _)
WordLength(chars, l) ==
    IF l >= Len(chars) \/ chars[l + 1] = " " THEN 0 ELSE 1 + WordLength(chars, l + 1)

\* C33: for every registry, every description and every width above the
\* indentation, the call of generate comes to its end
C33_GenerateTerminates == <>(usage.pc \in {"returned", "panicked"})

\* C33: every pass of the wrapping loop writes a line of at least one char of
\* the description and moves l forward
C33_EveryLineAdvances ==
    [][usage.pc = "write" => (usage.wrapped_width > 0 /\ usage'.l > usage.l)]_vars

\* C33: the wrapping loop is about to write a line of no char and to leave l
\* where it is, behind a space: the word at l, which is not the start of the
\* description, is longer than width - 4 and more than width - 4 chars remain
C33_LineOfNoChar ==
    /\ usage.pc = "write"
    /\ usage.width > Len(indentation)
    /\ usage.l > 0
    /\ usage.desc[usage.l] = " "
    /\ WordLength(usage.desc, usage.l) > max_desc_width
    /\ usage.wrapped_width = 0

\* C33: generate has panicked in the first pass of the wrapping loop, on a
\* description that starts with a word longer than width - 4
C33_LongFirstWordPanics ==
    /\ usage.pc = "panicked"
    /\ usage.l = 0
    /\ WordLength(usage.desc, 0) > max_desc_width

\* C33, for descriptions whose words are all shorter than width - 4: every
\* pass of the wrapping loop moves l forward
C33_ShortWordsAdvance ==
    [][(/\ usage.pc = "write"
        /\ \A l \in 0..(Len(usage.desc) - 1) : WordLength(usage.desc, l) < max_desc_width)
       => (usage.wrapped_width > 0 /\ usage'.l > usage.l)]_vars

\* C33: generate has returned after it wrapped a description over several
\* lines
C33_ReturnedAfterWrapping ==
    /\ usage.pc = "returned"
    /\ Len(usage.desc) > max_desc_width
    /\ Len(usage.out) > 2
====
